---- MODULE Spec2Model ----
(***************************************************************************)
(* The decision core of the onepick-movies recommendation bot: anti-repeat *)
(* exclusion, weight learning, candidate fetch and epsilon-greedy          *)
(* selection, over the storage tables they read and write.                 *)
(*                                                                         *)
(* Numbers: scores are kept as integers in hundredths (2.0 is 200).        *)
(* Time: the clock `now` counts whole days.                                *)
(***************************************************************************)
EXTENDS Integers, Sequences, FiniteSets, Bags, TLC

VARIABLES
    now,          \* the wall clock, in days
    recs,         \* table recommendations: a sequence of Selection Records
    favorites,    \* table favorites: rows [user_id, item_id], oldest first
    dismissed,    \* table dismissed_items: a set of rows [user_id, item_id]
    user_weights, \* table user_weights: a sequence of rows [user_id, key, weight]
    applied,      \* history: per user and key, the bag of deltas applied since the last reset
    nfeedback,    \* how many update_weights calls were made (bounds the exploration)
    nrepo,        \* how many direct WeightsRepo calls were made (bounds the exploration)
    feedback,     \* table feedback: a sequence of rows [rec_id, user_id, action, reason]
    users,        \* table users: user_id -> reset_at (NoReset when never reset)
    last,         \* the last operation: its arguments, its result, the state it started from
    pc,           \* each concurrent task's position (a storage session, a thread, a request)
    sess,         \* each concurrent task's arguments and locals
    flow_sessions, \* session.py: the SessionStore of the questionnaire flow
    rec_sessions   \* session.py: the SessionStore of the last recommendation

vars == <<now, recs, favorites, dismissed, user_weights, applied, nfeedback, nrepo, feedback, users,
          last, pc, sess, flow_sessions, rec_sessions>>

(***************************************************************************)
(* Bounds of the exploration.                                              *)
(***************************************************************************)
MaxDay == 2
MaxRecs == 2
MaxFeedback == 1
MaxRepoOps == 2
MaxFeedbackRows == 1

(***************************************************************************)
(* Configuration (app/config.py reads these from the environment) and      *)
(* literals of the code.                                                   *)
(***************************************************************************)
\* RECS_ANTI_REPEAT_DAYS: the deployment checked here sets a 1-day window
\* (the default is 90), so that the clock can leave the window.
recs_anti_repeat_days == 1
\* RECS_MAX_CANDIDATES (default 500), set to the size of the small catalog.
recs_max_candidates == 2
\* RECS_EPSILON, in hundredths (0.30).
recs_epsilon == 30
\* `if curated and len(curated) >= 5` in _get_candidates.
MinCurated == 5
\* `top_k = min(20, len(scored))` in _epsilon_greedy_select.
TopK == 20
\* `list_favorites(user_id, limit=500)` in get_excluded_item_ids. The limit is
\* scaled from 500 to 2 rows: the catalog here has 3 items, and what matters is
\* whether a user can hold more favorites than the limit (the real catalog
\* holds thousands of items, so a user can).
FavoritesLimit == 2

recs_prefer_curated == TRUE
recs_require_tags == FALSE

Users == {"u1", "u2"}

None == "None"

(***************************************************************************)
(* Python dicts are functions; d.get(k, default).                          *)
(***************************************************************************)
Get(d, k, default) == IF k \in DOMAIN d THEN d[k] ELSE default

EmptyDict == [k \in {} |-> None]

\* {**a, **b}: b's entries win.
Merge(a, b) == [k \in DOMAIN a \cup DOMAIN b |-> IF k \in DOMAIN b THEN b[k] ELSE a[k]]

Range(s) == {s[i] : i \in DOMAIN s}

(***************************************************************************)
(* The catalog (table items). base_score in hundredths; title as the set   *)
(* of its words.                                                           *)
(***************************************************************************)
Catalog ==
    [m1 |-> [type |-> "movie", title |-> {"comedy", "night"}, source |-> "curated", base_score |-> 300,
             overview |-> {"friends", "city"}, genres_json |-> {"comedy"}, credits_json |-> {"smith"},
             tags_json |-> <<[pace |-> "slow", mood |-> {"light"}, tone |-> {"warm"}, intensity |-> 2]>>],
     m2 |-> [type |-> "movie", title |-> {"dark", "thriller"}, source |-> "tmdb", base_score |-> 220,
             overview |-> {"night", "city"}, genres_json |-> {"thriller"}, credits_json |-> {"jones"},
             tags_json |-> <<[pace |-> "dynamic", mood |-> {"heavy"}, tone |-> {"dark"}, intensity |-> 4]>>],
     s1 |-> [type |-> "series", source |-> "curated", title |-> {"warm", "series"}, base_score |-> 280,
             overview |-> {}, genres_json |-> {}, credits_json |-> {},
             tags_json |-> <<[pace |-> "moderate", mood |-> {"light", "escape"}, tone |-> {}, intensity |-> 1]>>]]

ItemIds == DOMAIN Catalog


(***************************************************************************)
(* Tag model (app/core/tagging.py).                                        *)
(***************************************************************************)
normalize_pace(pace) ==
    IF pace = None THEN None
    ELSE IF pace \in {"slow", "meditative", "contemplative", "leisurely"} THEN "slow"
    ELSE IF pace \in {"fast", "quick", "rapid", "dynamic", "intense"} THEN "fast"
    ELSE IF pace \in {"medium", "moderate", "balanced"} THEN "slow"
    ELSE None

normalize_mood(mood) ==
    {"light" : m \in mood \cap {"light", "uplifting", "fun", "cheerful", "cozy", "warm", "hopeful"}}
    \cup {"heavy" : m \in (mood \ {"light", "uplifting", "fun", "cheerful", "cozy", "warm", "hopeful"})
                        \cap {"heavy", "dark", "intense", "dramatic", "serious", "deep", "profound"}}
    \cup {"escape" : m \in mood \cap {"escape", "escapist", "immersive", "adventure", "fantasy", "otherworldly"}}

\* int(intensity) clamped to 1..5 (an absent intensity is handled by the caller).
normalize_intensity(intensity) ==
    IF intensity < 1 THEN 1 ELSE IF intensity > 5 THEN 5 ELSE intensity

STATE_TO_MOOD(state) == IF state \in {"light", "heavy", "escape"} THEN state ELSE "escape"

PreferredTones(user_state) ==
    IF user_state = "light" THEN {"cozy", "warm", "heartfelt", "funny", "romantic", "sweet"}
    ELSE IF user_state = "heavy" THEN {"dark", "tense", "thought-provoking", "emotional", "profound"}
    ELSE {"adventure", "mysterious", "fantastical", "thrilling", "epic"}

\* float("-inf"), in hundredths: below every score the catalog can give.
MinusInf == -1000000

\* parse_tags: tags_json is <<>> when the column holds no usable JSON object,
\* else <<tags>>; the result is the same optional value.
parse_tags(tags_json) == tags_json

\* match_score, in hundredths; item_tags is <<>> for None.
match_score(item_tags, answers, require_tags) ==
    IF item_tags = <<>> THEN (IF require_tags THEN MinusInf ELSE 0)
    ELSE
      LET tags == item_tags[1]
          user_state == Get(answers, "state", "escape")
          user_pace == Get(answers, "pace", "slow")
          item_pace == normalize_pace(Get(tags, "pace", None))
          item_moods == normalize_mood(Get(tags, "mood", {}))
          item_tones == Get(tags, "tone", {})
      IN  (IF item_pace # None /\ item_pace = user_pace THEN 200 ELSE 0)
        + (IF STATE_TO_MOOD(user_state) \in item_moods THEN 200 ELSE 0)
        + (IF item_tones \cap PreferredTones(user_state) # {} THEN 50 ELSE 0)
        + (IF "intensity" \notin DOMAIN tags THEN 0
           ELSE LET item_intensity == normalize_intensity(tags.intensity)
                IN  IF user_state = "light" /\ item_intensity <= 2 THEN 30
                    ELSE IF user_state = "heavy" /\ item_intensity >= 4 THEN 30
                    ELSE IF user_state = "escape" /\ 2 <= item_intensity /\ item_intensity <= 4 THEN 30
                    ELSE 0)

\* context_key: f"state:{state}|pace:{pace}|format:{fmt}" with the defaults.
context_key(answers) ==
    "state:" \o Get(answers, "state", "escape")
        \o "|pace:" \o Get(answers, "pace", "slow")
        \o "|format:" \o Get(answers, "format", "movie")

(***************************************************************************)
(* parse_hint: the hint text is given by its words (text.split()), <<>>    *)
(* for no hint. Of the keyword sets the English keywords are kept.         *)
(***************************************************************************)
HINT_GENRE_MAP ==
    << [keywords |-> {"detective", "crime"}, overrides |-> [state |-> "heavy", pace |-> "slow"],
        tones |-> {"dark", "mysterious", "tense"}],
       [keywords |-> {"action"}, overrides |-> [state |-> "escape", pace |-> "fast"],
        tones |-> {"adventure", "thrilling"}],
       [keywords |-> {"comedy"}, overrides |-> [state |-> "light", pace |-> "fast"],
        tones |-> {"funny", "warm"}],
       [keywords |-> {"drama"}, overrides |-> [state |-> "heavy", pace |-> "slow"],
        tones |-> {"melancholy", "emotional"}],
       [keywords |-> {"horror", "thriller"}, overrides |-> [state |-> "heavy", pace |-> "fast"],
        tones |-> {"dark", "tense"}],
       [keywords |-> {"romance", "love"}, overrides |-> [state |-> "light", pace |-> "slow"],
        tones |-> {"warm", "romantic"}],
       [keywords |-> {"fantasy", "sci-fi"}, overrides |-> [state |-> "escape"],
        tones |-> {"weird", "adventure"}],
       [keywords |-> {"animation", "anime"}, overrides |-> [state |-> "light"],
        tones |-> {"cozy", "warm"}],
       [keywords |-> {"korean", "k-drama"}, overrides |-> EmptyDict, tones |-> {}],
       [keywords |-> {"chinese", "china"}, overrides |-> EmptyDict, tones |-> {}],
       [keywords |-> {"documentary"}, overrides |-> [state |-> "heavy", pace |-> "slow"],
        tones |-> {"thought-provoking"}] >>

RECURSIVE GenreOverrides(_, _, _)
GenreOverrides(words, i, acc) ==
    IF i > Len(HINT_GENRE_MAP) THEN acc
    ELSE GenreOverrides(words, i + 1,
            IF words \cap HINT_GENRE_MAP[i].keywords # {}
            THEN Merge(acc, HINT_GENRE_MAP[i].overrides) ELSE acc)

StopWords == {"something", "like", "similar", "good", "cool", "nice", "great", "want",
              "about", "with", "movie", "series", "show"}

\* The words of at least three letters among those the inputs use.
LongWords == {"comedy", "thriller", "series", "movie", "drama", "warm"}

parse_hint(hint) ==
    IF hint = <<>>
    THEN [overrides |-> EmptyDict, tone_keywords |-> {}, search_words |-> {}, llm_keywords |-> {}]
    ELSE
      LET words == Range(hint)
          fmt == IF words \cap {"series", "show"} # {} THEN [format |-> "series"]
                 ELSE IF words \cap {"movie"} # {} THEN [format |-> "movie"]
                 ELSE EmptyDict
      IN  [overrides |-> GenreOverrides(words, 1, fmt),
           tone_keywords |-> UNION {HINT_GENRE_MAP[i].tones :
                                      i \in {j \in 1..Len(HINT_GENRE_MAP) :
                                               words \cap HINT_GENRE_MAP[j].keywords # {}}},
           search_words |-> (words \cap LongWords) \ StopWords,
           llm_keywords |-> {}]


(***************************************************************************)
(* Storage (app/storage/repo_*.py). Each statement is atomic.              *)
(***************************************************************************)
\* RecsRepo.list_recent_user_item_ids: created_at >= now - days.
\* Variant: the query returns the item of the latest row only (LIMIT 1).
list_recent_user_item_ids_latest_only(user_id, days) ==
    LET rows == {j \in DOMAIN recs :
                    recs[j].user_id = user_id /\ recs[j].created_at >= now - days}
    IN  {recs[i].item_id : i \in {j \in rows : \A k \in rows : k <= j}}

list_recent_user_item_ids(user_id, days) ==
    {recs[i].item_id : i \in {j \in DOMAIN recs :
        recs[j].user_id = user_id /\ recs[j].created_at >= now - days}}

\* DismissedRepo.list_dismissed_ids
list_dismissed_ids(user_id) ==
    {d.item_id : d \in {x \in dismissed : x.user_id = user_id}}

\* FavoritesRepo.list_favorites: ORDER BY created_at DESC LIMIT limit.
\* The table is kept oldest first, so the newest `limit` rows are its tail.
list_favorites(user_id, limit) ==
    LET mine == SelectSeq(favorites, LAMBDA f : f.user_id = user_id)
        n == Len(mine)
    IN  [i \in 1..(IF n < limit THEN n ELSE limit) |-> mine[n + 1 - i]]

\* FavoritesRepo.is_favorited
is_favorited(user_id, item_id) ==
    \E i \in DOMAIN favorites : favorites[i] = [user_id |-> user_id, item_id |-> item_id]

\* reset_at of a user who never reset (NULL).
NoReset == -1

\* UsersRepo.ensure_user: the users table once the user has a row.
ensure_user(user_id) ==
    IF user_id \in DOMAIN users THEN users
    ELSE [u \in DOMAIN users \cup {user_id} |-> IF u = user_id THEN NoReset ELSE users[u]]

\* RecsRepo.get_rec: the rows with that rec_id (rec_id is the primary key).
get_rec(rec_id) == {recs[i] : i \in {j \in DOMAIN recs : recs[j].rec_id = rec_id}}

\* WeightsRepo.get_weight on a given table: the row's weight, 0 when there is no row.
WeightIn(table, user_id, key) ==
    LET rows == {i \in DOMAIN table : table[i].user_id = user_id /\ table[i].key = key}
    IN  IF rows = {} THEN 0 ELSE table[CHOOSE i \in rows : TRUE].weight

get_weight(user_id, key) == WeightIn(user_weights, user_id, key)

(***************************************************************************)
(* Anti-repeat policy (app/core/anti_repeat.py).                           *)
(***************************************************************************)
\* Variant: the favorites are taken out after the dismissed ids were added.
get_excluded_item_ids_favorites_last(user_id, additional_excludes, days) ==
    LET window == IF days = 0 THEN recs_anti_repeat_days ELSE days
        recent_ids == list_recent_user_item_ids(user_id, window)
        dismissed_ids == list_dismissed_ids(user_id)
        favs == list_favorites(user_id, FavoritesLimit)
        favorited_ids == {favs[i].item_id : i \in DOMAIN favs}
    IN  ((recent_ids \cup dismissed_ids) \ favorited_ids) \cup additional_excludes

\* days = 0 stands for the argument left out (`days or config.recs_anti_repeat_days`).
get_excluded_item_ids(user_id, additional_excludes, days) ==
    LET window == IF days = 0 THEN recs_anti_repeat_days ELSE days
        recent_ids == list_recent_user_item_ids(user_id, window)
        dismissed_ids == list_dismissed_ids(user_id)
    IN  IF recent_ids = {} /\ dismissed_ids = {} THEN additional_excludes
        ELSE LET favs == list_favorites(user_id, FavoritesLimit)
                 favorited_ids == {favs[i].item_id : i \in DOMAIN favs}
             IN  ((recent_ids \ favorited_ids) \cup dismissed_ids) \cup additional_excludes


(***************************************************************************)
(* Candidate fetch, scoring and selection (app/core/recommender.py).       *)
(***************************************************************************)
\* The sequence of the items of S by base_score, highest first
\* (ORDER BY base_score DESC; the catalog's scores are distinct).
RECURSIVE ByBaseScore(_)
ByBaseScore(S) ==
    IF S = {} THEN <<>>
    ELSE LET top == CHOOSE x \in S : \A y \in S : Catalog[y].base_score <= Catalog[x].base_score
         IN  <<top>> \o ByBaseScore(S \ {top})

Take(seq, n) == SubSeq(seq, 1, IF Len(seq) < n THEN Len(seq) ELSE (IF n < 0 THEN 0 ELSE n))

\* ItemsRepo.list_candidates; source_preference None means no source filter.
list_candidates(item_type, source_preference, exclude_ids, limit) ==
    Take(ByBaseScore({i \in ItemIds :
            /\ Catalog[i].type = item_type
            /\ (source_preference = None \/ Catalog[i].source = source_preference)
            /\ i \notin exclude_ids}), limit)

\* Variant: the supplement fetch excludes only the curated picks.
_get_candidates_supplement_unfiltered(item_type, excluded) ==
    LET limit == recs_max_candidates
        curated == list_candidates(item_type, "curated", excluded, limit)
    IN  curated \o list_candidates(item_type, "tmdb", Range(curated), limit - Len(curated))

_get_candidates(item_type, excluded) ==
    LET limit == recs_max_candidates
    IN  IF recs_prefer_curated
        THEN LET curated == list_candidates(item_type, "curated", excluded, limit)
             IN  IF Len(curated) >= MinCurated THEN curated
                 ELSE LET needed == limit - Len(curated)
                          all_excluded == excluded \cup Range(curated)
                      IN  curated \o list_candidates(item_type, "tmdb", all_excluded, needed)
        ELSE list_candidates(item_type, None, excluded, limit)

\* ln(n) in hundredths, for the soft cap of calculate_weight_bonus.
Ln100(n) == IF n <= 1 THEN 0 ELSE IF n = 2 THEN 69 ELSE IF n = 3 THEN 110
            ELSE IF n = 4 THEN 139 ELSE IF n = 5 THEN 161 ELSE 179

Abs(x) == IF x < 0 THEN -x ELSE x

\* calculate_weight_bonus with multiplier 0.25, in hundredths.
calculate_weight_bonus(weight) ==
    IF Abs(weight) <= 10 THEN weight * 25
    ELSE (IF weight > 0 THEN 1 ELSE -1) * ((1000 + Ln100(Abs(weight) - 9)) \div 4)

\* The interpreter salts hash(str) anew in every process (PYTHONHASHSEED is
\* not set by the deployment): a process is one of these salts.
HashSalts == {0, 1}

\* _compute_novelty_bonus: uniform(0.0, 0.2) of a generator seeded by
\* hash(item.item_id) % 10000, in hundredths; the rng argument is not read.
\* item_id is a string, so the value of an item depends on the hash salt of
\* the process and on nothing else.
_compute_novelty_bonus(item_id, hash_salt) ==
    IF hash_salt = 0
    THEN (IF item_id = "m1" THEN 3 ELSE IF item_id = "m2" THEN 17 ELSE 11)
    ELSE (IF item_id = "m1" THEN 17 ELSE IF item_id = "m2" THEN 3 ELSE 11)

Min(a, b) == IF a < b THEN a ELSE b

\* hint_match_score of the item's title, tags, overview, genres and credits,
\* in hundredths. A text is the set of the words found in it.
hint_match_score(item_id, tags, hint_result) ==
    LET all_words == hint_result.search_words \cup hint_result.llm_keywords
        llm_words == hint_result.llm_keywords
        title_tone ==
            300 * Cardinality(all_words \cap Catalog[item_id].title)
          + (IF tags = <<>> THEN 0
             ELSE 150 * Cardinality(hint_result.tone_keywords \cap Get(tags[1], "tone", {})))
    IN  IF all_words = {} /\ hint_result.tone_keywords = {} THEN 0
        ELSE IF llm_words = {} THEN Min(title_tone, 800)
        ELSE Min(title_tone + 100 * Cardinality(llm_words \cap Catalog[item_id].overview)
                            + 200 * Cardinality(llm_words \cap Catalog[item_id].genres_json)
                            + 300 * Cardinality(llm_words \cap Catalog[item_id].credits_json),
                 800)

\* A variant in which only curated items receive the weight bonus.
ScoreOf_weight_for_curated(item_id, answers, user_weight, hint_result, hash_salt) ==
    LET tags == parse_tags(Catalog[item_id].tags_json)
        m_score == match_score(tags, answers, recs_require_tags)
        w_bonus == IF Catalog[item_id].source = "curated" THEN calculate_weight_bonus(user_weight)
                   ELSE 0
    IN  [item_id |-> item_id,
         match_score |-> m_score,
         weight_bonus |-> w_bonus,
         novelty_bonus |-> _compute_novelty_bonus(item_id, hash_salt),
         score |-> Catalog[item_id].base_score + m_score + w_bonus
                     + _compute_novelty_bonus(item_id, hash_salt) + hint_match_score(item_id, tags, hint_result)]

ScoreOf(item_id, answers, user_weight, hint_result, hash_salt) ==
    LET tags == parse_tags(Catalog[item_id].tags_json)
        m_score == match_score(tags, answers, recs_require_tags)
    IN  [item_id |-> item_id,
         match_score |-> m_score,
         weight_bonus |-> calculate_weight_bonus(user_weight),
         novelty_bonus |-> _compute_novelty_bonus(item_id, hash_salt),
         score |-> Catalog[item_id].base_score + m_score + calculate_weight_bonus(user_weight)
                     + _compute_novelty_bonus(item_id, hash_salt) + hint_match_score(item_id, tags, hint_result)]

\* list.sort(key=score, reverse=True) is stable: x goes behind the entries
\* whose score is at least its own.
RECURSIVE InsertSorted(_, _)
InsertSorted(sorted, x) ==
    IF sorted = <<>> THEN <<x>>
    ELSE IF Head(sorted).score >= x.score THEN <<Head(sorted)>> \o InsertSorted(Tail(sorted), x)
    ELSE <<x>> \o sorted

RECURSIVE SortScored(_, _)
SortScored(todo, sorted) ==
    IF todo = <<>> THEN sorted ELSE SortScored(Tail(todo), InsertSorted(sorted, Head(todo)))

_score_candidates(candidates, answers, user_weight, hint_result, hash_salt) ==
    LET all == [i \in DOMAIN candidates |->
                  ScoreOf(candidates[i], answers, user_weight, hint_result, hash_salt)]
        kept == SelectSeq(all, LAMBDA c : c.match_score # MinusInf)
    IN  SortScored(kept, <<>>)

\* The longest list handed to the selector.
MaxScored == 22

\* sha256(f"{user_id}:{today}:{mode}:{salt}".encode()).digest()[:4] with the
\* empty salt of get_recommendation; today is the day of the clock, day 0
\* being the date 2024-01-01.
SeedDigestHead ==
    ( <<"u1", 0, "normal">> :> <<167, 30, 130, 144>> @@
      <<"u1", 0, "another">> :> <<128, 138, 127, 22>> @@
      <<"u1", 1, "normal">> :> <<229, 160, 109, 228>> @@
      <<"u1", 1, "another">> :> <<24, 7, 41, 17>> @@
      <<"u1", 2, "normal">> :> <<90, 119, 233, 236>> @@
      <<"u1", 2, "another">> :> <<232, 5, 165, 28>> @@
      <<"u1", 3, "normal">> :> <<25, 202, 192, 119>> @@
      <<"u1", 3, "another">> :> <<126, 221, 161, 234>> @@
      <<"u2", 0, "normal">> :> <<177, 192, 201, 197>> @@
      <<"u2", 0, "another">> :> <<45, 73, 132, 240>> @@
      <<"u2", 1, "normal">> :> <<79, 157, 72, 24>> @@
      <<"u2", 1, "another">> :> <<147, 188, 128, 191>> @@
      <<"u2", 2, "normal">> :> <<120, 3, 145, 45>> @@
      <<"u2", 2, "another">> :> <<232, 23, 222, 15>> @@
      <<"u2", 3, "normal">> :> <<212, 132, 28, 49>> @@
      <<"u2", 3, "another">> :> <<94, 241, 219, 41>> )

\* _deterministic_seed(user_id, mode): int.from_bytes(hash_bytes[:4], "big"),
\* kept as its four digits in base 256.
_deterministic_seed(user_id, today, mode) == SeedDigestHead[<<user_id, today, mode>>]

\* random.Random seeded with a seed: random() in hundredths (rounded down),
\* and the index the following choice(seq) draws, by len(seq) from 1 on.
\* Computed with the generator of the standard library for the seeds of
\* SeedDigestHead and for the seeds 0, 1 and 42.
MersenneTwister ==
    ( <<0, 0, 0, 0>> :> [random |-> 84,
        choice |-> <<0, 1, 1, 3, 3, 3, 6, 6, 6, 6, 6, 6, 12, 12, 12, 13, 13, 13, 13, 13, 13, 13, 13>>] @@
      <<0, 0, 0, 1>> :> [random |-> 13,
        choice |-> <<0, 0, 0, 0, 0, 0, 6, 1, 1, 1, 1, 1, 12, 13, 13, 2, 2, 2, 2, 2, 2, 2, 2>>] @@
      <<0, 0, 0, 42>> :> [random |-> 63,
        choice |-> <<0, 0, 0, 0, 0, 0, 0, 0, 0, 0, 0, 0, 0, 0, 0, 0, 0, 0, 0, 0, 0, 0, 0>>] @@
      <<24, 7, 41, 17>> :> [random |-> 8,
        choice |-> <<0, 1, 1, 2, 2, 2, 2, 5, 5, 5, 5, 5, 5, 5, 14, 10, 10, 10, 10, 10, 10, 10, 10>>] @@
      <<25, 202, 192, 119>> :> [random |-> 55,
        choice |-> <<0, 0, 0, 0, 0, 0, 0, 0, 0, 0, 0, 0, 0, 0, 0, 0, 0, 0, 0, 0, 0, 0, 0>>] @@
      <<45, 73, 132, 240>> :> [random |-> 38,
        choice |-> <<0, 1, 2, 2, 4, 4, 6, 5, 5, 9, 9, 9, 9, 13, 13, 10, 10, 10, 18, 18, 18, 18, 18>>] @@
      <<79, 157, 72, 24>> :> [random |-> 49,
        choice |-> <<0, 1, 2, 3, 4, 5, 5, 6, 8, 8, 10, 10, 10, 10, 10, 13, 16, 16, 16, 16, 16, 21, 21>>] @@
      <<90, 119, 233, 236>> :> [random |-> 99,
        choice |-> <<0, 0, 0, 0, 0, 0, 6, 0, 0, 0, 0, 0, 12, 12, 12, 1, 1, 1, 1, 1, 1, 1, 1>>] @@
      <<94, 241, 219, 41>> :> [random |-> 16,
        choice |-> <<0, 0, 2, 1, 4, 4, 4, 3, 3, 9, 9, 9, 9, 9, 9, 6, 6, 6, 6, 19, 19, 19, 19>>] @@
      <<120, 3, 145, 45>> :> [random |-> 53,
        choice |-> <<0, 0, 0, 0, 0, 0, 0, 1, 1, 1, 1, 1, 1, 1, 1, 3, 3, 3, 3, 3, 3, 3, 3>>] @@
      <<126, 221, 161, 234>> :> [random |-> 50,
        choice |-> <<0, 1, 1, 2, 2, 2, 2, 5, 5, 5, 5, 5, 5, 5, 5, 10, 10, 10, 10, 10, 10, 10, 10>>] @@
      <<128, 138, 127, 22>> :> [random |-> 41,
        choice |-> <<0, 1, 2, 3, 3, 5, 5, 6, 6, 6, 10, 10, 10, 10, 10, 13, 13, 13, 13, 13, 20, 20, 20>>] @@
      <<147, 188, 128, 191>> :> [random |-> 55,
        choice |-> <<0, 0, 0, 1, 1, 1, 1, 2, 2, 2, 2, 2, 2, 2, 2, 4, 4, 4, 4, 4, 4, 4, 4>>] @@
      <<167, 30, 130, 144>> :> [random |-> 80,
        choice |-> <<0, 0, 0, 1, 1, 1, 1, 2, 2, 2, 2, 2, 2, 2, 2, 5, 5, 5, 5, 5, 5, 5, 5>>] @@
      <<177, 192, 201, 197>> :> [random |-> 15,
        choice |-> <<0, 0, 0, 0, 0, 0, 0, 1, 1, 1, 1, 1, 1, 1, 1, 2, 2, 2, 2, 2, 2, 2, 2>>] @@
      <<212, 132, 28, 49>> :> [random |-> 96,
        choice |-> <<0, 0, 0, 0, 0, 0, 0, 1, 1, 1, 1, 1, 1, 1, 1, 3, 3, 3, 3, 3, 3, 3, 3>>] @@
      <<229, 160, 109, 228>> :> [random |-> 48,
        choice |-> <<0, 1, 2, 3, 4, 5, 5, 6, 6, 9, 10, 10, 10, 10, 10, 12, 12, 12, 12, 19, 19, 21, 21>>] @@
      <<232, 5, 165, 28>> :> [random |-> 48,
        choice |-> <<0, 0, 0, 1, 1, 1, 1, 3, 3, 3, 3, 3, 3, 3, 3, 7, 7, 7, 7, 7, 7, 7, 7>>] @@
      <<232, 23, 222, 15>> :> [random |-> 24,
        choice |-> <<0, 0, 0, 1, 1, 1, 1, 2, 2, 2, 2, 2, 2, 2, 2, 5, 5, 5, 5, 5, 5, 5, 5>>] )

\* _seeded_random(seed)
_seeded_random(seed) == MersenneTwister[seed]

\* A generator of which only the draws are known: random() is u hundredths
\* and choice(seq) draws the index c modulo len(seq).
AnyRng(u, c) == [random |-> u, choice |-> [k \in 1..(MaxScored + 1) |-> c % k]]

\* Variant: the exploit path takes the end of the list.
_epsilon_greedy_select_exploit_last(scored, epsilon, rng) ==
    IF rng.random < epsilon
    THEN LET top_k == Min(TopK, Len(scored)) IN scored[rng.choice[top_k] + 1]
    ELSE scored[Len(scored)]

\* Variant: the explore path draws from the whole list.
_epsilon_greedy_select_whole_list(scored, epsilon, rng) ==
    IF rng.random < epsilon
    THEN scored[rng.choice[Len(scored)] + 1]
    ELSE scored[1]

\* _epsilon_greedy_select(scored, epsilon, rng) for a non-empty list; epsilon
\* in hundredths.
_epsilon_greedy_select(scored, epsilon, rng) ==
    IF rng.random < epsilon
    THEN LET top_k == Min(TopK, Len(scored)) IN scored[rng.choice[top_k] + 1]
    ELSE scored[1]

\* epsilon_greedy_select_deterministic(scored, epsilon, seed)
epsilon_greedy_select_deterministic(scored, epsilon, seed) ==
    _epsilon_greedy_select(scored, epsilon, _seeded_random(seed))

(***************************************************************************)
(* Texts (app/core/rationale.py). A string is the sequence of its Unicode  *)
(* code points, so that length, lower-casing, search and replacement are   *)
(* computed on the characters the code handles.                            *)
(***************************************************************************)
MAX_RATIONALE_LENGTH == 320

\* "..."
Dots == <<46, 46, 46>>

\* The keywords of SPOILER_KEYWORDS in the order of the source text (lines 12
\* to 31): twist, ending, killer, dies, murderer, plot twist, finale, death,
\* killed, betrayal, reveal, shocking, surprise ending, and seven Ukrainian
\* words.
SpoilerList ==
    <<
      <<116, 119, 105, 115, 116>>,
      <<101, 110, 100, 105, 110, 103>>,
      <<107, 105, 108, 108, 101, 114>>,
      <<100, 105, 101, 115>>,
      <<109, 117, 114, 100, 101, 114, 101, 114>>,
      <<112, 108, 111, 116, 32, 116, 119, 105, 115, 116>>,
      <<102, 105, 110, 97, 108, 101>>,
      <<100, 101, 97, 116, 104>>,
      <<107, 105, 108, 108, 101, 100>>,
      <<98, 101, 116, 114, 97, 121, 97, 108>>,
      <<114, 101, 118, 101, 97, 108>>,
      <<115, 104, 111, 99, 107, 105, 110, 103>>,
      <<115, 117, 114, 112, 114, 105, 115, 101, 32, 101, 110, 100, 105, 110, 103>>,
      <<1087, 1086, 1074, 1086, 1088, 1086, 1090>>,
      <<1082, 1110, 1085, 1094, 1110, 1074, 1082, 1072>>,
      <<1074, 1073, 1080, 1074, 1094, 1103>>,
      <<1087, 1086, 1084, 1080, 1088, 1072, 1108>>,
      <<1075, 1080, 1085, 1077>>,
      <<1079, 1088, 1072, 1076, 1072>>,
      <<1092, 1110, 1085, 1072, 1083>>
    >>

\* frozenset([...]): the set of the keywords.
SPOILER_KEYWORDS == {SpoilerList[i] : i \in DOMAIN SpoilerList}

\* RATIONALE_TEMPLATES: state -> bank of templates.
RATIONALE_TEMPLATES ==
    [
      light |-> <<
        \* line 37 of rationale.py, 75 characters
        <<1051, 1077, 1075, 1082, 1077, 32, 1082, 1110, 1085, 1086, 44, 32, 1103, 1082, 1077, 32,
          1085, 1077, 32, 1085, 1072, 1074, 1072, 1085, 1090, 1072, 1078, 1091, 1108, 46, 32, 1057,
          1072, 1084, 1077, 32, 1090, 1077, 44, 32, 1097, 1086, 1073, 32, 1088, 1086, 1079, 1089,
          1083, 1072, 1073, 1080, 1090, 1080, 1089, 1100, 32, 1087, 1110, 1089, 1083, 1103, 32,
          1076, 1086, 1074, 1075, 1086, 1075, 1086, 32, 1076, 1085, 1103, 46>>,
        \* line 38 of rationale.py, 59 characters
        <<1055, 1088, 1086, 1089, 1090, 1080, 1081, 32, 1110, 32, 1087, 1088, 1080, 1108, 1084,
          1085, 1080, 1081, 32, 1087, 1077, 1088, 1077, 1075, 1083, 1103, 1076, 46, 32, 1057, 1110,
          1076, 1072, 1081, 32, 1079, 1088, 1091, 1095, 1085, 1110, 1096, 1077, 32, 1110, 32, 1085,
          1072, 1089, 1086, 1083, 1086, 1076, 1078, 1091, 1081, 1089, 1103, 46>>,
        \* line 39 of rationale.py, 53 characters
        <<1065, 1086, 1089, 1100, 32, 1089, 1074, 1110, 1090, 1083, 1077, 44, 32, 1097, 1086, 1073,
          32, 1087, 1110, 1076, 1085, 1103, 1090, 1080, 32, 1085, 1072, 1089, 1090, 1088, 1110,
          1081, 46, 32, 1053, 1110, 1103, 1082, 1086, 1075, 1086, 32, 1085, 1072, 1087, 1088, 1091,
          1078, 1077, 1085, 1085, 1103, 46>>,
        \* line 40 of rationale.py, 50 characters
        <<1058, 1077, 1087, 1083, 1072, 44, 32, 1085, 1077, 1074, 1080, 1084, 1091, 1096, 1077,
          1085, 1072, 32, 1110, 1089, 1090, 1086, 1088, 1110, 1103, 32, 8212, 32, 1090, 1077, 44,
          32, 1097, 1086, 32, 1079, 1072, 1088, 1072, 1079, 32, 1087, 1086, 1090, 1088, 1110, 1073,
          1085, 1086, 46>>,
        \* line 41 of rationale.py, 56 characters
        <<1050, 1086, 1084, 1092, 1086, 1088, 1090, 1085, 1080, 1081, 32, 1087, 1077, 1088, 1077,
          1075, 1083, 1103, 1076, 46, 32, 1044, 1086, 1079, 1074, 1086, 1083, 1100, 32, 1089, 1086,
          1073, 1110, 32, 1097, 1086, 1089, 1100, 32, 1087, 1088, 1086, 1089, 1090, 1077, 32, 1110,
          32, 1087, 1088, 1080, 1108, 1084, 1085, 1077, 46>>
      >>,
      heavy |-> <<
        \* line 44 of rationale.py, 49 characters
        <<1043, 1083, 1080, 1073, 1086, 1082, 1072, 32, 1110, 1089, 1090, 1086, 1088, 1110, 1103,
          44, 32, 1103, 1082, 1072, 32, 1079, 1072, 1083, 1080, 1096, 1072, 1108, 1090, 1100, 1089,
          1103, 32, 1079, 32, 1090, 1086, 1073, 1086, 1102, 32, 1085, 1072, 1076, 1086, 1074, 1075,
          1086, 46>>,
        \* line 45 of rationale.py, 57 characters
        <<1057, 1077, 1088, 1081, 1086, 1079, 1085, 1077, 32, 1082, 1110, 1085, 1086, 32, 1076,
          1083, 1103, 32, 1090, 1080, 1093, 44, 32, 1093, 1090, 1086, 32, 1075, 1086, 1090, 1086,
          1074, 1080, 1081, 32, 1074, 1110, 1076, 1095, 1091, 1090, 1080, 32, 1097, 1086, 1089,
          1100, 32, 1089, 1087, 1088, 1072, 1074, 1078, 1085, 1108, 46>>,
        \* line 46 of rationale.py, 40 characters
        <<1055, 1086, 1090, 1091, 1078, 1085, 1080, 1081, 32, 1085, 1072, 1088, 1072, 1090, 1080,
          1074, 44, 32, 1097, 1086, 32, 1074, 1080, 1085, 1072, 1075, 1086, 1088, 1086, 1076, 1078,
          1091, 1108, 32, 1091, 1074, 1072, 1075, 1091, 46>>,
        \* line 47 of rationale.py, 48 characters
        <<1041, 1072, 1075, 1072, 1090, 1086, 1096, 1072, 1088, 1086, 1074, 1072, 32, 1088, 1086,
          1079, 1087, 1086, 1074, 1110, 1076, 1100, 44, 32, 1097, 1086, 32, 1079, 1072, 1087, 1088,
          1086, 1096, 1091, 1108, 32, 1076, 1086, 32, 1088, 1086, 1079, 1076, 1091, 1084, 1110,
          1074, 46>>,
        \* line 48 of rationale.py, 56 characters
        <<1042, 1072, 1075, 1086, 1084, 1077, 32, 1082, 1110, 1085, 1086, 44, 32, 1103, 1082, 1077,
          32, 1079, 1072, 1083, 1080, 1096, 1072, 1108, 32, 1089, 1083, 1110, 1076, 46, 32, 1042,
          1072, 1088, 1090, 1077, 32, 1090, 1074, 1086, 1108, 1111, 32, 1087, 1086, 1074, 1085,
          1086, 1111, 32, 1091, 1074, 1072, 1075, 1080, 46>>
      >>,
      escape |-> <<
        \* line 51 of rationale.py, 66 characters
        <<1063, 1080, 1089, 1090, 1080, 1081, 32, 1077, 1089, 1082, 1077, 1081, 1087, 1110, 1079,
          1084, 46, 32, 1044, 1086, 1079, 1074, 1086, 1083, 1100, 32, 1089, 1086, 1073, 1110, 32,
          1087, 1086, 1074, 1085, 1110, 1089, 1090, 1102, 32, 1079, 1072, 1075, 1091, 1073, 1080,
          1090, 1080, 1089, 1100, 32, 1074, 32, 1110, 1085, 1096, 1086, 1084, 1091, 32, 1089, 1074,
          1110, 1090, 1110, 46>>,
        \* line 52 of rationale.py, 57 characters
        <<1055, 1086, 1076, 1086, 1088, 1086, 1078, 32, 1076, 1072, 1083, 1077, 1082, 1086, 32,
          1074, 1110, 1076, 32, 1073, 1091, 1076, 1077, 1085, 1085, 1086, 1089, 1090, 1110, 44, 32,
          1103, 1082, 32, 1090, 1080, 32, 1081, 32, 1087, 1088, 1086, 1089, 1080, 1074, 46, 32,
          1047, 1072, 1085, 1091, 1088, 1102, 1081, 1089, 1103, 46>>,
        \* line 53 of rationale.py, 54 characters
        <<1047, 1072, 1093, 1086, 1087, 1083, 1080, 1074, 1072, 32, 1110, 1089, 1090, 1086, 1088,
          1110, 1103, 44, 32, 1097, 1086, 32, 1087, 1077, 1088, 1077, 1085, 1086, 1089, 1080, 1090,
          1100, 32, 1082, 1091, 1076, 1080, 1089, 1100, 32, 1079, 1086, 1074, 1089, 1110, 1084, 32,
          1110, 1085, 1072, 1082, 1096, 1077, 46>>,
        \* line 54 of rationale.py, 64 characters
        <<1055, 1086, 1074, 1085, 1077, 32, 1079, 1072, 1085, 1091, 1088, 1077, 1085, 1085, 1103,
          32, 1074, 32, 1110, 1085, 1096, 1091, 32, 1088, 1077, 1072, 1083, 1100, 1085, 1110, 1089,
          1090, 1100, 46, 32, 1047, 1072, 1073, 1091, 1076, 1100, 32, 1087, 1088, 1086, 32, 1074,
          1089, 1077, 32, 1085, 1072, 32, 1103, 1082, 1080, 1081, 1089, 1100, 32, 1095, 1072, 1089,
          46>>,
        \* line 55 of rationale.py, 59 characters
        <<1055, 1088, 1080, 1075, 1086, 1076, 1072, 32, 1095, 1077, 1082, 1072, 1108, 46, 32, 1050,
          1088, 1086, 1082, 1085, 1080, 32, 1082, 1088, 1110, 1079, 1100, 32, 1077, 1082, 1088,
          1072, 1085, 32, 1110, 32, 1079, 1072, 1083, 1080, 1096, 32, 1089, 1074, 1110, 1081, 32,
          1089, 1074, 1110, 1090, 32, 1087, 1086, 1079, 1072, 1076, 1091, 46>>
      >>
    ]

\* PACE_MODIFIERS: pace -> bank of modifier sentences.
PACE_MODIFIERS ==
    [
      slow |-> <<
        \* line 62 of rationale.py, 29 characters
        <<1050, 1110, 1085, 1086, 32, 1085, 1077, 32, 1087, 1086, 1089, 1087, 1110, 1096, 1072,
          1108, 44, 32, 1110, 32, 1094, 1077, 32, 1076, 1086, 1073, 1088, 1077, 46>>,
        \* line 63 of rationale.py, 41 characters
        <<1053, 1077, 1082, 1074, 1072, 1087, 1083, 1080, 1074, 1080, 1081, 32, 1090, 1077, 1084,
          1087, 44, 32, 1097, 1086, 32, 1076, 1072, 1108, 32, 1084, 1086, 1084, 1077, 1085, 1090,
          1072, 1084, 32, 1076, 1080, 1093, 1072, 1090, 1080, 46>>,
        \* line 64 of rationale.py, 44 characters
        <<1057, 1087, 1086, 1075, 1083, 1103, 1076, 1072, 1083, 1100, 1085, 1080, 1081, 32, 1088,
          1080, 1090, 1084, 32, 1076, 1083, 1103, 32, 1074, 1076, 1091, 1084, 1083, 1080, 1074,
          1086, 1075, 1086, 32, 1087, 1077, 1088, 1077, 1075, 1083, 1103, 1076, 1091, 46>>
      >>,
      fast |-> <<
        \* line 67 of rationale.py, 33 characters
        <<1046, 1074, 1072, 1074, 1080, 1081, 32, 1090, 1077, 1084, 1087, 44, 32, 1097, 1086, 32,
          1090, 1088, 1080, 1084, 1072, 1108, 32, 1074, 32, 1085, 1072, 1087, 1088, 1091, 1079,
          1110, 46>>,
        \* line 68 of rationale.py, 27 characters
        <<1044, 1080, 1085, 1072, 1084, 1110, 1082, 1072, 44, 32, 1103, 1082, 1072, 32, 1085, 1077,
          32, 1074, 1110, 1076, 1087, 1091, 1089, 1082, 1072, 1108, 46>>,
        \* line 69 of rationale.py, 31 characters
        <<1045, 1085, 1077, 1088, 1075, 1110, 1081, 1085, 1086, 32, 1074, 1110, 1076, 32, 1087,
          1086, 1095, 1072, 1090, 1082, 1091, 32, 1076, 1086, 32, 1082, 1110, 1085, 1094, 1103, 46>>
      >>
    ]

\* The literal of WHEN_TO_WATCH: state -> pace -> bank of templates.
WhenToWatchBank ==
    [
      light |-> [
          slow |-> <<
            \* line 77 of rationale.py, 42 characters
            <<1053, 1072, 1081, 1082, 1088, 1072, 1097, 1077, 32, 1073, 1077, 1079, 32, 1074, 1110,
              1076, 1074, 1086, 1083, 1110, 1082, 1072, 1085, 1100, 44, 32, 1079, 32, 1090, 1077,
              1087, 1083, 1080, 1084, 32, 1085, 1072, 1087, 1086, 1108, 1084, 46>>,
            \* line 78 of rationale.py, 52 characters
            <<1030, 1076, 1077, 1072, 1083, 1100, 1085, 1086, 32, 1076, 1083, 1103, 32, 1090, 1080,
              1093, 1086, 1075, 1086, 32, 1074, 1077, 1095, 1086, 1088, 1072, 44, 32, 1082, 1086,
              1083, 1080, 32, 1093, 1086, 1095, 1077, 1096, 32, 1088, 1086, 1079, 1089, 1083, 1072,
              1073, 1080, 1090, 1080, 1089, 1100, 46>>,
            \* line 79 of rationale.py, 30 characters
            <<1044, 1083, 1103, 32, 1089, 1087, 1086, 1082, 1110, 1081, 1085, 1086, 1075, 1086, 32,
              1079, 1072, 1074, 1077, 1088, 1096, 1077, 1085, 1085, 1103, 32, 1076, 1085, 1103, 46>>
          >>,
          fast |-> <<
            \* line 82 of rationale.py, 36 characters
            <<1050, 1086, 1083, 1080, 32, 1093, 1086, 1095, 1077, 1096, 32, 1083, 1077, 1075, 1082,
              1080, 1093, 32, 1088, 1086, 1079, 1074, 1072, 1075, 32, 1079, 32, 1077, 1085, 1077,
              1088, 1075, 1110, 1108, 1102, 46>>,
            \* line 83 of rationale.py, 46 characters
            <<1044, 1083, 1103, 32, 1074, 1080, 1093, 1110, 1076, 1085, 1080, 1093, 44, 32, 1082,
              1086, 1083, 1080, 32, 1087, 1086, 1090, 1088, 1110, 1073, 1077, 1085, 32, 1076, 1088,
              1072, 1081, 1074, 32, 1073, 1077, 1079, 32, 1085, 1072, 1087, 1088, 1091, 1075, 1080,
              46>>,
            \* line 84 of rationale.py, 39 characters
            <<1050, 1086, 1083, 1080, 32, 1093, 1086, 1095, 1077, 1096, 32, 1095, 1086, 1075, 1086,
              1089, 1100, 32, 1083, 1077, 1075, 1082, 1086, 1075, 1086, 44, 32, 1072, 1083, 1077,
              32, 1078, 1074, 1072, 1074, 1086, 1075, 1086, 46>>
          >>
        ],
      heavy |-> [
          slow |-> <<
            \* line 89 of rationale.py, 58 characters
            <<1042, 1080, 1076, 1110, 1083, 1080, 32, 1095, 1072, 1089, 32, 1073, 1077, 1079, 32,
              1074, 1110, 1076, 1074, 1086, 1083, 1110, 1082, 1072, 1085, 1100, 46, 32, 1062, 1077,
              32, 1082, 1110, 1085, 1086, 32, 1074, 1080, 1085, 1072, 1075, 1086, 1088, 1086, 1076,
              1078, 1091, 1108, 32, 1090, 1077, 1088, 1087, 1110, 1085, 1085, 1103, 46>>,
            \* line 90 of rationale.py, 54 characters
            <<1044, 1083, 1103, 32, 1087, 1110, 1079, 1085, 1100, 1086, 1075, 1086, 32, 1074, 1077,
              1095, 1086, 1088, 1072, 44, 32, 1082, 1086, 1083, 1080, 32, 1084, 1086, 1078, 1077,
              1096, 32, 1087, 1086, 1074, 1085, 1110, 1089, 1090, 1102, 32, 1079, 1086, 1089, 1077,
              1088, 1077, 1076, 1080, 1090, 1080, 1089, 1100, 46>>,
            \* line 91 of rationale.py, 49 characters
            <<1050, 1086, 1083, 1080, 32, 1075, 1086, 1090, 1086, 1074, 1080, 1081, 32, 1087, 1086,
              45, 1089, 1087, 1088, 1072, 1074, 1078, 1085, 1100, 1086, 1084, 1091, 32, 1079, 1072,
              1085, 1091, 1088, 1080, 1090, 1080, 1089, 1100, 32, 1074, 32, 1110, 1089, 1090, 1086,
              1088, 1110, 1102, 46>>
          >>,
          fast |-> <<
            \* line 94 of rationale.py, 41 characters
            <<1050, 1086, 1083, 1080, 32, 1093, 1086, 1095, 1077, 1096, 32, 1110, 1085, 1090, 1077,
              1085, 1089, 1080, 1074, 1085, 1086, 1089, 1090, 1110, 32, 1073, 1077, 1079, 32, 1079,
              1072, 1090, 1103, 1075, 1091, 1074, 1072, 1085, 1085, 1103, 46>>,
            \* line 95 of rationale.py, 39 characters
            <<1047, 1072, 1093, 1086, 1087, 1083, 1102, 1102, 1095, 1080, 1081, 32, 1087, 1077,
              1088, 1077, 1075, 1083, 1103, 1076, 44, 32, 1097, 1086, 32, 1074, 1080, 1084, 1072,
              1075, 1072, 1108, 32, 1091, 1074, 1072, 1075, 1080, 46>>,
            \* line 96 of rationale.py, 46 characters
            <<1050, 1086, 1083, 1080, 32, 1093, 1086, 1095, 1077, 1096, 32, 1095, 1086, 1075, 1086,
              1089, 1100, 32, 1089, 1077, 1088, 1081, 1086, 1079, 1085, 1086, 1075, 1086, 44, 32,
              1072, 1083, 1077, 32, 1076, 1080, 1085, 1072, 1084, 1110, 1095, 1085, 1086, 1075,
              1086, 46>>
          >>
        ],
      escape |-> [
          slow |-> <<
            \* line 101 of rationale.py, 62 characters
            <<1042, 1083, 1072, 1096, 1090, 1091, 1081, 1089, 1103, 32, 1079, 1088, 1091, 1095,
              1085, 1086, 32, 1076, 1083, 1103, 32, 1087, 1086, 1076, 1086, 1088, 1086, 1078, 1110,
              46, 32, 1044, 1072, 1081, 32, 1089, 1074, 1110, 1090, 1091, 32, 1087, 1086, 1073,
              1091, 1076, 1091, 1074, 1072, 1090, 1080, 1089, 1100, 32, 1085, 1072, 1074, 1082,
              1086, 1083, 1086, 46>>,
            \* line 102 of rationale.py, 45 characters
            <<1044, 1083, 1103, 32, 1083, 1110, 1085, 1080, 1074, 1086, 1075, 1086, 32, 1076, 1085,
              1103, 44, 32, 1082, 1086, 1083, 1080, 32, 1093, 1086, 1095, 1077, 1096, 32, 1079,
              1085, 1080, 1082, 1085, 1091, 1090, 1080, 32, 1082, 1091, 1076, 1080, 1089, 1100,
              46>>,
            \* line 103 of rationale.py, 31 characters
            <<1050, 1086, 1083, 1080, 32, 1108, 32, 1095, 1072, 1089, 32, 1087, 1086, 1074, 1085,
              1110, 1089, 1090, 1102, 32, 1079, 1072, 1085, 1091, 1088, 1080, 1090, 1080, 1089,
              1100, 46>>
          >>,
          fast |-> <<
            \* line 106 of rationale.py, 44 characters
            <<1055, 1088, 1080, 1089, 1090, 1077, 1073, 1085, 1080, 1089, 1100, 32, 8212, 32, 1094,
              1077, 32, 1072, 1090, 1088, 1072, 1082, 1094, 1110, 1086, 1085, 44, 32, 1097, 1086,
              32, 1085, 1077, 32, 1074, 1110, 1076, 1087, 1091, 1089, 1082, 1072, 1108, 46>>,
            \* line 107 of rationale.py, 35 characters
            <<1050, 1086, 1083, 1080, 32, 1093, 1086, 1095, 1077, 1096, 32, 1087, 1088, 1080, 1075,
              1086, 1076, 32, 1079, 32, 1084, 1110, 1089, 1094, 1103, 32, 1074, 32, 1082, 1072,
              1088, 39, 1108, 1088, 46>>,
            \* line 108 of rationale.py, 36 characters
            <<1044, 1083, 1103, 32, 1079, 1072, 1093, 1086, 1087, 1083, 1080, 1074, 1086, 1111, 32,
              1074, 1090, 1077, 1095, 1110, 32, 1074, 1110, 1076, 32, 1088, 1077, 1072, 1083, 1100,
              1085, 1086, 1089, 1090, 1110, 46>>
          >>
        ]
    ]

\* The literal generate_when_to_watch returns for an empty bank (line 263).
WhenToWatchDefault ==
    <<1050, 1086, 1083, 1080, 32, 1073, 1091, 1076, 1077, 1096, 32, 1075, 1086, 1090, 1086, 1074,
      1080, 1081, 32, 1076, 1086, 32, 1095, 1086, 1075, 1086, 1089, 1100, 32, 1082, 1083, 1072,
      1089, 1085, 1086, 1075, 1086, 46>>

\* DELTA_EXPLAINERS: delta type -> bank of templates with placeholders.
DELTA_EXPLAINERS ==
    [
      pace_flipped |-> <<
        \* line 116 of rationale.py, 40 characters
        <<1058, 1077, 1087, 1077, 1088, 32, 123, 110, 101, 119, 95, 112, 97, 99, 101, 125, 44, 32,
          1072, 1083, 1077, 32, 1090, 1086, 1081, 32, 1089, 1072, 1084, 1080, 1081, 32, 1085, 1072,
          1089, 1090, 1088, 1110, 1081, 46>>,
        \* line 117 of rationale.py, 20 characters
        <<1054, 1089, 1100, 32, 1097, 1086, 1089, 1100, 32, 123, 110, 101, 119, 95, 112, 97, 99,
          101, 125, 46>>,
        \* line 118 of rationale.py, 43 characters
        <<1058, 1072, 32, 1089, 1072, 1084, 1072, 32, 1072, 1090, 1084, 1086, 1089, 1092, 1077,
          1088, 1072, 44, 32, 1110, 1085, 1096, 1080, 1081, 32, 1088, 1080, 1090, 1084, 32, 8212,
          32, 123, 110, 101, 119, 95, 112, 97, 99, 101, 125, 46>>
      >>,
      tone_shifted |-> <<
        \* line 121 of rationale.py, 31 characters
        <<1057, 1093, 1086, 1078, 1077, 32, 1074, 1110, 1076, 1095, 1091, 1090, 1090, 1103, 44, 32,
          1110, 1085, 1096, 1080, 1081, 32, 1074, 1110, 1076, 1090, 1110, 1085, 1086, 1082, 46>>,
        \* line 122 of rationale.py, 35 characters
        <<1047, 1072, 1083, 1080, 1096, 1072, 1102, 1089, 1100, 32, 1091, 32, 1085, 1072, 1089,
          1090, 1088, 1086, 1111, 44, 32, 1079, 1084, 1110, 1085, 1102, 1102, 32, 1072, 1082, 1094,
          1077, 1085, 1090, 46>>,
        \* line 123 of rationale.py, 27 characters
        <<1058, 1072, 32, 1089, 1072, 1084, 1072, 32, 1089, 1091, 1090, 1100, 44, 32, 1085, 1086,
          1074, 1080, 1081, 32, 1087, 1110, 1076, 1093, 1110, 1076, 46>>
      >>,
      format_flipped |-> <<
        \* line 126 of rationale.py, 24 characters
        <<1062, 1100, 1086, 1075, 1086, 32, 1088, 1072, 1079, 1091, 32, 123, 110, 101, 119, 95, 102,
          111, 114, 109, 97, 116, 125, 46>>,
        \* line 127 of rationale.py, 38 characters
        <<1058, 1086, 1081, 32, 1089, 1072, 1084, 1080, 1081, 32, 1074, 1072, 1081, 1073, 44, 32,
          1090, 1077, 1087, 1077, 1088, 32, 1103, 1082, 32, 123, 110, 101, 119, 95, 102, 111, 114,
          109, 97, 116, 125, 46>>,
        \* line 128 of rationale.py, 30 characters
        <<1047, 1084, 1110, 1085, 1102, 1102, 32, 1092, 1086, 1088, 1084, 1072, 1090, 32, 1085,
          1072, 32, 123, 110, 101, 119, 95, 102, 111, 114, 109, 97, 116, 125, 46>>
      >>
    ]

\* PACE_WORDS_UA, FORMAT_WORDS_UA: the Ukrainian word for a pace, for a format.
PACE_WORDS_UA ==
    [slow |-> <<1087, 1086, 1074, 1110, 1083, 1100, 1085, 1110, 1096, 1077>>,
     fast |-> <<1076, 1080, 1085, 1072, 1084, 1110, 1095, 1085, 1110, 1096, 1077>>]

FORMAT_WORDS_UA ==
    [movie |-> <<1092, 1110, 1083, 1100, 1084>>,
     series |-> <<1089, 1077, 1088, 1110, 1072, 1083>>]

\* "{new_pace}" and "{new_format}"
PlaceholderNewPace == <<123, 110, 101, 119, 95, 112, 97, 99, 101, 125>>
PlaceholderNewFormat == <<123, 110, 101, 119, 95, 102, 111, 114, 109, 97, 116, 125>>

\* The words a caller can pass as new_value, as strings of the code.
ValueText ==
    [slow |-> <<115, 108, 111, 119>>, fast |-> <<102, 97, 115, 116>>,
     movie |-> <<109, 111, 118, 105, 101>>, series |-> <<115, 101, 114, 105, 101, 115>>]

\* hashlib.sha256(f"{rec_id}{salt}".encode()).digest()[:4]: the first four
\* bytes of the digest, for the ids and salts used here.
Sha256Head ==
    ( <<"1", "">> :> <<107, 134, 178, 115>> @@
      <<"1", "rationale">> :> <<204, 74, 28, 236>> @@
      <<"1", "pace_mod">> :> <<123, 81, 124, 205>> @@
      <<"1", "pace">> :> <<28, 161, 191, 89>> @@
      <<"1", "when">> :> <<58, 140, 121, 193>> @@
      <<"1", "delta">> :> <<107, 118, 112, 130>> @@
      <<"2", "">> :> <<212, 115, 94, 58>> @@
      <<"2", "rationale">> :> <<229, 65, 108, 130>> @@
      <<"2", "pace_mod">> :> <<194, 54, 138, 41>> @@
      <<"2", "pace">> :> <<238, 52, 205, 152>> @@
      <<"2", "when">> :> <<140, 77, 179, 132>> @@
      <<"2", "delta">> :> <<102, 208, 13, 33>> @@
      <<"3", "">> :> <<78, 7, 64, 133>> @@
      <<"3", "rationale">> :> <<54, 212, 69, 91>> @@
      <<"3", "pace_mod">> :> <<21, 81, 168, 116>> @@
      <<"3", "pace">> :> <<202, 115, 152, 12>> @@
      <<"3", "when">> :> <<55, 153, 215, 199>> @@
      <<"3", "delta">> :> <<1, 227, 186, 237>> @@
      <<"delta", "">> :> <<79, 74, 148, 16>> @@
      <<"delta", "rationale">> :> <<253, 177, 241, 173>> @@
      <<"delta", "pace_mod">> :> <<188, 26, 155, 86>> @@
      <<"delta", "pace">> :> <<31, 213, 149, 132>> @@
      <<"delta", "when">> :> <<112, 4, 115, 213>> @@
      <<"delta", "delta">> :> <<183, 99, 90, 67>> )


\* str.lower() on the letters of the banks and of the keywords: Latin and
\* Cyrillic capitals go to their small letters, every other character stays.
Lower(ch) ==
    IF ch \in 65..90 THEN ch + 32
    ELSE IF ch \in 1040..1071 THEN ch + 32
    ELSE IF ch \in 1024..1039 THEN ch + 80
    ELSE ch

LowerText(text) == [i \in DOMAIN text |-> Lower(text[i])]

\* keyword in text
Contains(text, keyword) ==
    \E i \in 1..(Len(text) - Len(keyword) + 1) :
        text[i] = keyword[1] /\ SubSeq(text, i, i + Len(keyword) - 1) = keyword

_contains_spoiler(text) ==
    LET text_lower == LowerText(text)
    IN  \E keyword \in SPOILER_KEYWORDS : Contains(text_lower, keyword)

\* The positions at which word occurs in text.
Occurrences(text, word) ==
    {i \in 1..(Len(text) - Len(word) + 1) :
        text[i] = word[1] /\ SubSeq(text, i, i + Len(word) - 1) = word}

\* Of the occurrences at the positions found, each of length n, those a scan
\* from position p takes: the leftmost, then the leftmost behind its end.
RECURSIVE Leftmost(_, _, _)
Leftmost(found, n, p) ==
    LET rest == {i \in found : i >= p}
    IN  IF rest = {} THEN {}
        ELSE LET i == CHOOSE j \in rest : \A k \in rest : j <= k
             IN  {i} \cup Leftmost(found, n, i + n)

\* text with the n characters from each position of starts replaced by new.
Splice(text, starts, n, new) ==
    IF starts = {} THEN text
    ELSE
      LET covered == {i \in 1..Len(text) : \E j \in starts : j <= i /\ i < j + n}
          kept == {i \in 1..Len(text) : i \notin covered}
          \* offset[i]: the length of what the characters before i become
          offset == [i \in 1..(Len(text) + 1) |->
                       Cardinality({j \in kept : j < i})
                         + Len(new) * Cardinality({j \in starts : j < i})]
      IN  [k \in 1..offset[Len(text) + 1] |->
             LET i == CHOOSE j \in kept \cup starts :
                         IF j \in starts THEN offset[j] < k /\ k <= offset[j] + Len(new)
                         ELSE offset[j] + 1 = k
             IN  IF i \in starts THEN new[k - offset[i]] ELSE text[i]]

\* re.compile(re.escape(keyword), re.IGNORECASE).sub("...", text): the matches
\* are taken from the left and do not overlap.
Sub(keyword, text) ==
    Splice(text, Leftmost(Occurrences(LowerText(text), LowerText(keyword)), Len(keyword), 1),
           Len(keyword), Dots)

RECURSIVE SubAll(_, _)
SubAll(order, text) ==
    IF order = <<>> \/ text = <<>> THEN text ELSE SubAll(Tail(order), Sub(Head(order), text))

\* _sanitize_text(text, max_length). order is the order in which the loop
\* meets the keywords: the iteration order of a frozenset of strings follows
\* the interpreter's string hash and differs from process to process.
_sanitize_text(text, max_length, order) ==
    LET result == SubAll(order, text)
    IN  IF Len(result) > max_length THEN SubSeq(result, 1, max_length - 3) \o Dots ELSE result

\* int.from_bytes(hash_bytes[:4], "big"): an integer below 2^32, kept as its
\* four digits in base 256 with the most significant first (the integers of
\* the checker end at 2^31 - 1).
_hash_seed(rec_id, salt) == Sha256Head[<<rec_id, salt>>]

\* value % n for a value given by its digits in base 256.
RECURSIVE BigMod(_, _, _)
BigMod(digits, n, acc) ==
    IF digits = <<>> THEN acc ELSE BigMod(Tail(digits), n, (acc * 256 + Head(digits)) % n)

\* Variant: the salt is left out of the hash.
_select_by_hash_salt_ignored(options, rec_id, salt) ==
    IF options = <<>> THEN <<>>
    ELSE options[BigMod(_hash_seed(rec_id, ""), Len(options), 0) + 1]

\* _select_by_hash: options[idx], with Python's index from 0.
_select_by_hash(options, rec_id, salt) ==
    IF options = <<>> THEN <<>>
    ELSE options[BigMod(_hash_seed(rec_id, salt), Len(options), 0) + 1]

\* generate_rationale(rec_id, answers); item_tags is not read.
generate_rationale(rec_id, answers, order) ==
    LET state == Get(answers, "state", "escape")
        pace == Get(answers, "pace", "slow")
        templates == Get(RATIONALE_TEMPLATES, state, RATIONALE_TEMPLATES["escape"])
        base == _select_by_hash(templates, rec_id, "rationale")
        modifiers == Get(PACE_MODIFIERS, pace, PACE_MODIFIERS["slow"])
        modifier == _select_by_hash(modifiers, rec_id, "pace")
    IN  _sanitize_text(IF BigMod(_hash_seed(rec_id, "pace_mod"), 2, 0) = 0
                       THEN base \o <<32>> \o modifier ELSE base,
                       MAX_RATIONALE_LENGTH, order)

\* Variant: a bank whose light/slow templates end with " Finale".
WHEN_TO_WATCH_finale ==
    [WhenToWatchBank EXCEPT
       !["light"]["slow"] = [i \in DOMAIN @ |-> @[i] \o <<32, 70>> \o Tail(SpoilerList[7])]]

WHEN_TO_WATCH == WhenToWatchBank

generate_when_to_watch(rec_id, answers) ==
    LET state == Get(answers, "state", "escape")
        pace == Get(answers, "pace", "slow")
        state_templates == Get(WHEN_TO_WATCH, state, WHEN_TO_WATCH["escape"])
        pace_templates == Get(state_templates, pace, Get(state_templates, "slow", <<>>))
    IN  IF pace_templates = <<>> THEN WhenToWatchDefault
        ELSE _select_by_hash(pace_templates, rec_id, "when")

\* str.replace(old, new): every occurrence, from the left.
Replace(text, old, new) ==
    Splice(text, Leftmost(Occurrences(text, old), Len(old), 1), Len(old), new)

\* generate_delta_explainer(delta_type, new_value, rec_id); new_value is a
\* word of ValueText or "" (the empty string).
generate_delta_explainer(delta_type, new_value, rec_id) ==
    LET templates == Get(DELTA_EXPLAINERS, delta_type, DELTA_EXPLAINERS["tone_shifted"])
        template == _select_by_hash(templates, rec_id, "delta")
        as_text == IF new_value = "" THEN <<>> ELSE ValueText[new_value]
    IN  IF delta_type = "pace_flipped"
        THEN Replace(template, PlaceholderNewPace, Get(PACE_WORDS_UA, new_value, as_text))
        ELSE IF delta_type = "format_flipped"
        THEN Replace(template, PlaceholderNewFormat, Get(FORMAT_WORDS_UA, new_value, as_text))
        ELSE template

\* validate_rationale: <<is_valid, error>>.
validate_rationale(rationale) ==
    IF Len(rationale) > MAX_RATIONALE_LENGTH THEN <<FALSE, "Rationale too long">>
    ELSE IF _contains_spoiler(rationale) THEN <<FALSE, "Rationale contains spoiler keywords">>
    ELSE <<TRUE, None>>

_flip_pace(pace) == IF pace = "slow" THEN "fast" ELSE "slow"

_flip_format(fmt) == IF fmt = "movie" THEN "series" ELSE "movie"

\* Variant: the flip is recorded but the answers keep their pace.
_apply_another_delta_pace_kept(answers, last_context) ==
    LET last_delta == Get(last_context, "delta", EmptyDict)
        pace_recently_flipped == Get(last_delta, "pace_flipped", FALSE)
        current_pace == Get(answers, "pace", "slow")
    IN  IF ~pace_recently_flipped
        THEN <<[pace_flipped |-> TRUE], answers,
               generate_delta_explainer("pace_flipped", _flip_pace(current_pace), "delta")>>
        ELSE <<[tone_shifted |-> TRUE], answers,
               generate_delta_explainer("tone_shifted", "", "delta")>>

\* Variant: the pace is flipped again after a flip.
_apply_another_delta_always_flips(answers, last_context) ==
    LET current_pace == Get(answers, "pace", "slow")
        new_pace == _flip_pace(current_pace)
    IN  <<[pace_flipped |-> TRUE], Merge(answers, [pace |-> new_pace]),
          generate_delta_explainer("pace_flipped", new_pace, "delta")>>

\* Variant: the flip also records a tone shift.
_apply_another_delta_both_flags(answers, last_context) ==
    LET last_delta == Get(last_context, "delta", EmptyDict)
        pace_recently_flipped == Get(last_delta, "pace_flipped", FALSE)
        current_pace == Get(answers, "pace", "slow")
        new_pace == _flip_pace(current_pace)
    IN  IF ~pace_recently_flipped
        THEN <<[pace_flipped |-> TRUE, tone_shifted |-> TRUE], Merge(answers, [pace |-> new_pace]),
               generate_delta_explainer("pace_flipped", new_pace, "delta")>>
        ELSE <<[tone_shifted |-> TRUE], answers,
               generate_delta_explainer("tone_shifted", "", "delta")>>

\* Variant: a tone shift keeps the pace_flipped flag of the context before it.
_apply_another_delta_flag_kept(answers, last_context) ==
    LET last_delta == Get(last_context, "delta", EmptyDict)
        current_pace == Get(answers, "pace", "slow")
        new_pace == _flip_pace(current_pace)
    IN  IF ~Get(last_delta, "pace_flipped", FALSE)
        THEN <<[pace_flipped |-> TRUE], Merge(answers, [pace |-> new_pace]),
               generate_delta_explainer("pace_flipped", new_pace, "delta")>>
        ELSE <<[tone_shifted |-> TRUE, pace_flipped |-> TRUE], answers,
               generate_delta_explainer("tone_shifted", "", "delta")>>

\* _apply_another_delta: <<delta_info, effective answers, delta explainer>>.
\* A variant that takes the docstring's third option: the format is flipped
\* when the pace was flipped last time and the format is the last one again.
_apply_another_delta_flips_format(answers, last_context) ==
    LET last_delta == Get(last_context, "delta", EmptyDict)
        current_pace == Get(answers, "pace", "slow")
        current_format == Get(answers, "format", "movie")
    IN  IF ~Get(last_delta, "pace_flipped", FALSE)
        THEN <<[pace_flipped |-> TRUE], Merge(answers, [pace |-> _flip_pace(current_pace)]),
               generate_delta_explainer("pace_flipped", _flip_pace(current_pace), "delta")>>
        ELSE IF Get(last_context, "format", "movie") = current_format
        THEN <<[format_flipped |-> TRUE], Merge(answers, [format |-> _flip_format(current_format)]),
               generate_delta_explainer("format_flipped", _flip_format(current_format), "delta")>>
        ELSE <<[tone_shifted |-> TRUE], answers,
               generate_delta_explainer("tone_shifted", "", "delta")>>

_apply_another_delta(answers, last_context) ==
    LET last_delta == Get(last_context, "delta", EmptyDict)
        pace_recently_flipped == Get(last_delta, "pace_flipped", FALSE)
        current_pace == Get(answers, "pace", "slow")
        new_pace == _flip_pace(current_pace)
    IN  IF ~pace_recently_flipped
        THEN <<[pace_flipped |-> TRUE], Merge(answers, [pace |-> new_pace]),
               generate_delta_explainer("pace_flipped", new_pace, "delta")>>
        ELSE <<[tone_shifted |-> TRUE], answers,
               generate_delta_explainer("tone_shifted", "", "delta")>>


\* get_recommendation: hint_result = parse_hint(hint_text), its search_words
\* extended by the keywords translate_hint_keywords answered.
TranslatedHint(answers0, en_keywords) ==
    LET hint_text == Get(answers0, "hint", <<>>)
        parsed == parse_hint(hint_text)
    IN  IF hint_text # <<>>
        THEN [parsed EXCEPT !.search_words = @ \cup en_keywords]
        ELSE parsed

\* get_recommendation up to the point where the Selection Record is written:
\* what it computes from its arguments and the tables. last_context is
\* EmptyDict for None; en_keywords is what translate_hint_keywords answered.
\* weights is the table user_weights as the call finds it.
RecommendOn(weights, user_id, answers0, mode, exclude_item_ids, last_context, en_keywords, rng, hash_salt) ==
    LET hint_result == TranslatedHint(answers0, en_keywords)
        answers == IF hint_result.overrides # EmptyDict
                   THEN Merge(answers0, hint_result.overrides) ELSE answers0
        fmt == Get(answers, "format", "movie")
        item_type0 == IF fmt \in {"movie", "series"} THEN fmt ELSE "movie"
        another == mode = "another" /\ last_context # EmptyDict
        delta == IF another THEN _apply_another_delta(answers, last_context)
                 ELSE <<EmptyDict, answers, <<>> >>
        delta_info == delta[1]
        effective_answers == delta[2]
        delta_explainer == IF another THEN <<delta[3]>> ELSE <<>>
        item_type == IF Get(delta_info, "format_flipped", FALSE)
                     THEN Get(effective_answers, "format", item_type0) ELSE item_type0
        excluded == get_excluded_item_ids(user_id, exclude_item_ids, 0)
        candidates == _get_candidates(item_type, excluded)
        user_weight == WeightIn(weights, user_id, context_key(effective_answers))
        \* the candidates are fetched once and scored as fetched
        scored == CHOOSE s \in {IF c = <<>> THEN <<>>
                                ELSE _score_candidates(c, effective_answers, user_weight,
                                                       hint_result, hash_salt) :
                                c \in {candidates}} : TRUE
        selected == _epsilon_greedy_select(scored, recs_epsilon, rng)
        context == Merge(Merge(effective_answers, [mode |-> mode]),
                         IF delta_info # EmptyDict THEN [delta |-> delta_info] ELSE EmptyDict)
    IN  [found |-> scored # <<>>,
         item_id |-> IF scored # <<>> THEN selected.item_id ELSE None,
         context |-> context,
         delta_info |-> delta_info,
         delta_explainer |-> delta_explainer,
         item_type |-> item_type,
         effective_answers |-> effective_answers,
         excluded |-> excluded]

Recommend(user_id, answers0, mode, exclude_item_ids, last_context, en_keywords, rng, hash_salt) ==
    RecommendOn(user_weights, user_id, answers0, mode, exclude_item_ids, last_context, en_keywords,
                rng, hash_salt)

(***************************************************************************)
(* Weight store and learning (repo_weights.py, app/core/learning.py).      *)
(***************************************************************************)
\* Variant: an "another" press is rewarded like a hit.
REWARDS_another_as_hit ==
    [hit |-> 2, another |-> 2, miss |-> -2, favorite |-> 2, share |-> 2, silent_drop |-> -1]

REWARDS == [hit |-> 2, another |-> 1, miss |-> -2, favorite |-> 2, share |-> 2, silent_drop |-> -1]

MISS_REASON_CORRECTIONS == {"tooslow", "tooheavy", "notvibe"}

\* Variant: the opposite of every pace is fast.
_get_opposite_pace_always_fast(pace) == "fast"

_get_opposite_pace(pace) == IF pace = "slow" THEN "fast" ELSE "slow"

\* Variant: escape gets light as its opposite.
_get_opposite_state_escape_to_light(state) ==
    IF state = "light" THEN "heavy" ELSE "light"

_get_opposite_state(state) ==
    IF state = "heavy" THEN "light" ELSE IF state = "light" THEN "heavy" ELSE "escape"

\* Variant: the UPDATE overwrites the weight with the delta.
UpdateStmt_overwrite(table, user_id, key, delta) ==
    [i \in DOMAIN table |->
        IF table[i].user_id = user_id /\ table[i].key = key
        THEN [table[i] EXCEPT !.weight = delta] ELSE table[i]]

\* UPDATE user_weights SET weight = weight + delta WHERE user_id, key
UpdateStmt(table, user_id, key, delta) ==
    [i \in DOMAIN table |->
        IF table[i].user_id = user_id /\ table[i].key = key
        THEN [table[i] EXCEPT !.weight = @ + delta] ELSE table[i]]

RowCount(table, user_id, key) ==
    Cardinality({i \in DOMAIN table : table[i].user_id = user_id /\ table[i].key = key})

\* Variant: a plain INSERT on a table without the unique constraint.
UpsertStmt_plain_insert(table, user_id, key, delta) ==
    Append(table, [user_id |-> user_id, key |-> key, weight |-> delta])

\* INSERT ... ON CONFLICT (user_id, key) DO UPDATE SET weight = weight + delta
\* (uq_user_weights_user_key).
UpsertStmt(table, user_id, key, delta) ==
    IF RowCount(table, user_id, key) > 0 THEN UpdateStmt(table, user_id, key, delta)
    ELSE Append(table, [user_id |-> user_id, key |-> key, weight |-> delta])

\* WeightsRepo.add_weight_delta, run without interruption.
add_weight_delta(table, user_id, key, delta) ==
    IF RowCount(table, user_id, key) = 0
    THEN UpsertStmt(UpdateStmt(table, user_id, key, delta), user_id, key, delta)
    ELSE UpdateStmt(table, user_id, key, delta)

\* Variant: an unknown action counts as reward 0 and goes on to the corrections.
WeightCalls_unknown_as_zero(rec, action, reason) ==
    LET answers == [state |-> Get(rec.context, "state", "escape"),
                    pace |-> Get(rec.context, "pace", "slow"),
                    format |-> Get(rec.context, "format", "movie")]
        reward == Get(REWARDS, action, 0)
        main == IF reward # 0 THEN << <<context_key(answers), reward>> >> ELSE <<>>
        correction ==
            IF reason = "tooslow"
            THEN << <<context_key([answers EXCEPT !.pace = _get_opposite_pace(answers.pace)]), 1>> >>
            ELSE IF reason = "tooheavy" /\ _get_opposite_state(answers.state) # answers.state
            THEN << <<context_key([answers EXCEPT !.state = _get_opposite_state(answers.state)]), 1>> >>
            ELSE <<>>
    IN  main \o correction

\* update_weights: the add_weight_delta calls it makes, in order, as
\* <<key, delta>> pairs; rec is the Selection Record found.
WeightCalls(rec, action, reason) ==
    LET context == rec.context
        answers == [state |-> Get(context, "state", "escape"),
                    pace |-> Get(context, "pace", "slow"),
                    format |-> Get(context, "format", "movie")]
        key == context_key(answers)
        reward == Get(REWARDS, action, 0)
        main == IF reward # 0 THEN << <<key, reward>> >> ELSE <<>>
        correction ==
            IF reason # None /\ reason \in MISS_REASON_CORRECTIONS
            THEN IF reason = "tooslow"
                 THEN << <<context_key([answers EXCEPT !.pace = _get_opposite_pace(answers.pace)]), 1>> >>
                 ELSE IF reason = "tooheavy"
                 THEN LET lighter_state == _get_opposite_state(answers.state)
                      IN  IF lighter_state # answers.state
                          THEN << <<context_key([answers EXCEPT !.state = lighter_state]), 1>> >>
                          ELSE <<>>
                 ELSE <<>>
            ELSE <<>>
    IN  IF reward = 0 /\ action \notin DOMAIN REWARDS THEN <<>> ELSE main \o correction

\* The weight_changes dict update_weights returns for those calls.
RECURSIVE WeightChanges(_, _)
WeightChanges(calls, acc) ==
    IF calls = <<>> THEN acc
    ELSE WeightChanges(Tail(calls),
            Merge(acc, [k \in {Head(calls)[1]} |-> Get(acc, Head(calls)[1], 0) + Head(calls)[2]]))

RECURSIVE ApplyCalls(_, _, _)
ApplyCalls(table, user_id, calls) ==
    IF calls = <<>> THEN table
    ELSE ApplyCalls(add_weight_delta(table, user_id, Head(calls)[1], Head(calls)[2]),
                    user_id, Tail(calls))

RECURSIVE LogCalls(_, _, _)
LogCalls(bag, user_id, calls) ==
    IF calls = <<>> THEN bag
    ELSE LogCalls(bag (+) SetToBag({[user_id |-> user_id, key |-> Head(calls)[1], delta |-> Head(calls)[2]]}),
                  user_id, Tail(calls))


(***************************************************************************)
(* Inputs.                                                                 *)
(***************************************************************************)
Plain == [state |-> "light", pace |-> "slow", format |-> "movie"]
Series == [state |-> "heavy", pace |-> "fast", format |-> "series"]
Partial == [format |-> "movie"]
Hinted == [state |-> "escape", pace |-> "slow", format |-> "movie", hint |-> <<"comedy">>]
HintedSeries == [state |-> "light", pace |-> "slow", format |-> "movie", hint |-> <<"thriller", "series">>]
Fast == [state |-> "heavy", pace |-> "fast", format |-> "movie"]

Requests == {Plain, Series, Partial, Hinted, HintedSeries}

Modes == {"normal", "another"}

ExcludeSets == { {}, {"m1"} }

EnKeywordSets == { {}, {"night"} }

\* <<rng.random() in hundredths, the index rng.choice draws, the hash salt of
\* the process>>: exploit, explore with the first, explore with the second of
\* the slice.
Draws == { <<60, 0, 0>>, <<10, 0, 0>>, <<10, 1, 1>> }

FeedbackActions == {"hit", "another", "miss", "favorite", "share", "silent_drop", "skip"}

Reasons == {None, "tooslow", "tooheavy", "notvibe"}

\* The feedback the learning slice sends: every action without a reason, a
\* miss with every reason, every other action with a pace or state reason,
\* an unknown action with a reason.
LearnInputs ==
    (FeedbackActions \X {None}) \cup ({"miss"} \X Reasons)
        \cup ((DOMAIN REWARDS) \X {"tooslow", "tooheavy"}) \cup {<<"skip", "tooslow">>}

\* The feedback the weights slice sends.
WeightInputs == { <<"hit", None>>, <<"another", None>>, <<"miss", "tooslow">> }

\* The direct add_weight_delta calls: <<key, delta>>.
DirectDeltas == { <<context_key(Plain), 1>>, <<context_key(Plain), -2>>, <<"tone:warm", 0>> }

BulkDeltas ==
    { [k \in {"state:light|pace:slow|format:movie"} |-> 3],
      [k \in {"state:light|pace:slow|format:movie", "tone:warm"} |-> IF k = "tone:warm" THEN 0 ELSE -1] }

(***************************************************************************)
(* session.py: the in-memory SessionStore. A store is its map _sessions    *)
(* from user_id to UserSession, its _ttl and the number of UserSession     *)
(* objects it has allocated; a session carries the identity oid of its     *)
(* object. An absent value (None) is the empty tuple, a present one a      *)
(* 1-tuple. The clock is in whole days: a time-to-live of 600 or 1800      *)
(* seconds is 0 whole days, so a session is live for the rest of the day   *)
(* it was created on and expired from the next day on.                     *)
(***************************************************************************)
FlowTtl == 0
RecTtl == 0

UserSession(user_id, created_at, oid) ==
    [user_id |-> user_id, created_at |-> created_at, answers |-> EmptyDict, hint |-> <<>>,
     awaiting_hint |-> FALSE, last_rec_id |-> <<>>, last_item_id |-> <<>>, last_ref |-> <<>>,
     oid |-> oid]

SessionStore(ttl_seconds) == [_sessions |-> EmptyDict, _ttl |-> ttl_seconds, allocated |-> 0]

\* (now - s.created_at) > self._ttl
SessionExpired(store, s, time) == (time - s.created_at) > store._ttl

Without(sessions, user_id) == [u \in DOMAIN sessions \ {user_id} |-> sessions[u]]

With(sessions, session) ==
    [u \in DOMAIN sessions \cup {session.user_id} |->
        IF u = session.user_id THEN session ELSE sessions[u]]

_cleanup_expired(store, time) ==
    [store EXCEPT !._sessions =
        [u \in {uid \in DOMAIN store._sessions : ~SessionExpired(store, store._sessions[uid], time)}
            |-> store._sessions[u]]]

\* <<the store afterwards, the session or None>>
get(store, user_id, time) ==
    LET cleaned == _cleanup_expired(store, time)
    IN  IF user_id \in DOMAIN cleaned._sessions
        THEN IF SessionExpired(cleaned, cleaned._sessions[user_id], time)
             THEN << [cleaned EXCEPT !._sessions = Without(@, user_id)], <<>> >>
             ELSE << cleaned, << cleaned._sessions[user_id] >> >>
        ELSE << cleaned, <<>> >>

\* <<the store afterwards, the session>>
get_or_create(store, user_id, time) ==
    LET got == get(store, user_id, time)
        session == UserSession(user_id, time, got[1].allocated + 1)
    IN  IF got[2] = <<>>
        THEN << [got[1] EXCEPT !._sessions = With(@, session), !.allocated = @ + 1], session >>
        ELSE << got[1], got[2][1] >>

set_answers(store, user_id, answers, time) ==
    LET made == get_or_create(store, user_id, time)
    IN  [made[1] EXCEPT !._sessions = With(@, [made[2] EXCEPT !.answers = answers])]

set_last_rec(store, user_id, rec_id, item_id, time) ==
    LET made == get_or_create(store, user_id, time)
    IN  [made[1] EXCEPT !._sessions =
            With(@, [made[2] EXCEPT !.last_rec_id = <<rec_id>>, !.last_item_id = <<item_id>>])]

clear(store, user_id) == [store EXCEPT !._sessions = Without(@, user_id)]

reset_flow(store, user_id, time) ==
    LET got == get(store, user_id, time)
    IN  IF got[2] = <<>> THEN got[1]
        ELSE [got[1] EXCEPT !._sessions =
                With(@, [got[2][1] EXCEPT !.answers = EmptyDict, !.hint = <<>>,
                                          !.awaiting_hint = FALSE, !.created_at = time])]

\* The stores at the start: u2 answered the questions and holds the
\* recommendation 1 of m2.
InitFlowSessions ==
    set_answers(SessionStore(FlowTtl), "u2", [state |-> "light", pace |-> "slow", format |-> "movie"], 0)

InitRecSessions == set_last_rec(SessionStore(RecTtl), "u2", 1, "m2", 0)

(***************************************************************************)
(* The state machine. The tables start with the rows of a user u2 who was  *)
(* recommended m2, asked for another, favorited m1 and dismissed s1.       *)
(***************************************************************************)
Init ==
    /\ now = 0
    /\ recs = << [rec_id |-> 1, user_id |-> "u2", item_id |-> "m2",
                  context |-> Merge(Plain, [mode |-> "normal"]), created_at |-> 0] >>
    /\ favorites = << [user_id |-> "u2", item_id |-> "m1"] >>
    /\ dismissed = { [user_id |-> "u2", item_id |-> "s1"] }
    /\ user_weights = << [user_id |-> "u2", key |-> context_key(Plain), weight |-> 1] >>
    /\ applied = SetToBag({ [user_id |-> "u2", key |-> context_key(Plain), delta |-> 1] })
    /\ nfeedback = 0
    /\ nrepo = 0
    /\ feedback = << [rec_id |-> 1, user_id |-> "u2", action |-> "another", reason |-> None] >>
    /\ users = [u \in {"u2"} |-> NoReset]
    /\ last = [op |-> "init"]
    /\ pc = EmptyDict
    /\ sess = EmptyDict
    /\ flow_sessions = InitFlowSessions
    /\ rec_sessions = InitRecSessions

\* The Selection Records written since the start.
NewRecs == Len(recs) - 1

\* Variant: the Selection Record is written before the candidates are looked at.
GetRecommendation_record_first(user_id, answers, mode, exclude_item_ids, last_context, en_keywords, rng, hash_salt) ==
    \E r \in {Recommend(user_id, answers, mode, exclude_item_ids, last_context, en_keywords, rng,
                         hash_salt)} :
        /\ NewRecs < MaxRecs
        /\ recs' = Append(recs, [rec_id |-> Len(recs) + 1, user_id |-> user_id,
                                  item_id |-> r.item_id, context |-> r.context,
                                  created_at |-> now])
        /\ last' = [op |-> "get_recommendation", user_id |-> user_id, answers |-> answers,
                    mode |-> mode, exclude_item_ids |-> exclude_item_ids,
                    last_context |-> last_context, excluded |-> r.excluded,
                    effective_answers |-> r.effective_answers, item_type |-> r.item_type,
                    found |-> r.found, item_id |-> r.item_id,
                    delta_info |-> r.delta_info, delta_explainer |-> r.delta_explainer,
                    rec_id |-> IF r.found THEN Len(recs) + 1 ELSE 0]
        /\ users' = ensure_user(user_id)
        /\ UNCHANGED <<now, favorites, dismissed, user_weights, applied, nfeedback, nrepo, feedback, pc, sess, flow_sessions, rec_sessions>>

\* get_recommendation(user_id, answers, mode, exclude_item_ids, last_context)
GetRecommendation(user_id, answers, mode, exclude_item_ids, last_context, en_keywords, rng, hash_salt) ==
    \E r \in {Recommend(user_id, answers, mode, exclude_item_ids, last_context, en_keywords, rng,
                         hash_salt)} :
        /\ r.found => NewRecs < MaxRecs
        /\ recs' = IF r.found
                   THEN Append(recs, [rec_id |-> Len(recs) + 1, user_id |-> user_id,
                                      item_id |-> r.item_id, context |-> r.context,
                                      created_at |-> now])
                   ELSE recs
        /\ last' = [op |-> "get_recommendation", user_id |-> user_id, answers |-> answers,
                    mode |-> mode, exclude_item_ids |-> exclude_item_ids,
                    last_context |-> last_context, excluded |-> r.excluded,
                    effective_answers |-> r.effective_answers, item_type |-> r.item_type,
                    found |-> r.found, item_id |-> r.item_id,
                    delta_info |-> r.delta_info, delta_explainer |-> r.delta_explainer,
                    rec_id |-> IF r.found THEN Len(recs) + 1 ELSE 0]
        /\ users' = ensure_user(user_id)
        /\ UNCHANGED <<now, favorites, dismissed, user_weights, applied, nfeedback, nrepo, feedback, pc, sess, flow_sessions, rec_sessions>>

\* update_weights(user_id, rec_id, action, reason)
UpdateWeights(user_id, rec_id, action, reason) ==
    \E calls \in {IF get_rec(rec_id) = {} THEN <<>>
                  ELSE WeightCalls(CHOOSE r \in get_rec(rec_id) : TRUE, action, reason)} :
        /\ nfeedback < MaxFeedback
        /\ nfeedback' = nfeedback + 1
        /\ user_weights' = ApplyCalls(user_weights, user_id, calls)
        /\ applied' = LogCalls(applied, user_id, calls)
        /\ last' = [op |-> "update_weights", user_id |-> user_id, rec_id |-> rec_id,
                    action |-> action, reason |-> reason,
                    result |-> WeightChanges(calls, EmptyDict), before |-> user_weights]
        /\ UNCHANGED <<now, recs, favorites, dismissed, nrepo, pc, sess, feedback, users, flow_sessions, rec_sessions>>

\* WeightsRepo.bulk_add_weight_deltas(user_id, deltas): an upsert per non-zero delta.
RECURSIVE BulkUpsert(_, _, _, _)
BulkUpsert(table, user_id, deltas, keys) ==
    IF keys = {} THEN table
    ELSE LET k == CHOOSE x \in keys : TRUE
         IN  BulkUpsert(IF deltas[k] = 0 THEN table ELSE UpsertStmt(table, user_id, k, deltas[k]),
                        user_id, deltas, keys \ {k})

RECURSIVE BulkLog(_, _, _, _)
BulkLog(bag, user_id, deltas, keys) ==
    IF keys = {} THEN bag
    ELSE LET k == CHOOSE x \in keys : TRUE
         IN  BulkLog(IF deltas[k] = 0 THEN bag
                     ELSE bag (+) SetToBag({[user_id |-> user_id, key |-> k, delta |-> deltas[k]]}),
                     user_id, deltas, keys \ {k})

BulkAddWeightDeltas(user_id, deltas) ==
    /\ nrepo < MaxRepoOps
    /\ nrepo' = nrepo + 1
    /\ user_weights' = BulkUpsert(user_weights, user_id, deltas, DOMAIN deltas)
    /\ applied' = BulkLog(applied, user_id, deltas, DOMAIN deltas)
    /\ last' = [op |-> "bulk_add_weight_deltas", user_id |-> user_id]
    /\ UNCHANGED <<now, recs, favorites, dismissed, nfeedback, pc, sess, feedback, users, flow_sessions, rec_sessions>>

\* WeightsRepo.add_weight_delta(user_id, key, delta), called on its own
AddWeightDelta(user_id, key, delta) ==
    /\ nrepo < MaxRepoOps
    /\ nrepo' = nrepo + 1
    /\ user_weights' = add_weight_delta(user_weights, user_id, key, delta)
    /\ applied' = applied (+) SetToBag({[user_id |-> user_id, key |-> key, delta |-> delta]})
    /\ last' = [op |-> "add_weight_delta", user_id |-> user_id]
    /\ UNCHANGED <<now, recs, favorites, dismissed, nfeedback, pc, sess, feedback, users, flow_sessions, rec_sessions>>

\* FavoritesRepo.add_favorite: INSERT ... ON CONFLICT DO NOTHING
AddFavorite(user_id, item_id) ==
    /\ favorites' = IF is_favorited(user_id, item_id) THEN favorites
                    ELSE Append(favorites, [user_id |-> user_id, item_id |-> item_id])
    /\ last' = [op |-> "add_favorite"]
    /\ UNCHANGED <<now, recs, dismissed, user_weights, applied, nfeedback, nrepo, pc, sess, feedback, users, flow_sessions, rec_sessions>>

\* FavoritesRepo.remove_favorite
RemoveFavorite(user_id, item_id) ==
    /\ favorites' = SelectSeq(favorites, LAMBDA f : f # [user_id |-> user_id, item_id |-> item_id])
    /\ last' = [op |-> "remove_favorite"]
    /\ UNCHANGED <<now, recs, dismissed, user_weights, applied, nfeedback, nrepo, pc, sess, feedback, users, flow_sessions, rec_sessions>>

\* DismissedRepo.add_dismissed: INSERT ... ON CONFLICT DO NOTHING
AddDismissed(user_id, item_id) ==
    /\ dismissed' = dismissed \cup {[user_id |-> user_id, item_id |-> item_id]}
    /\ last' = [op |-> "add_dismissed"]
    /\ UNCHANGED <<now, recs, favorites, user_weights, applied, nfeedback, nrepo, pc, sess, feedback, users, flow_sessions, rec_sessions>>

\* FeedbackRepo.add_feedback: one more row
AddFeedback(user_id, rec_id, action, reason) ==
    /\ Len(feedback) - 1 < MaxFeedbackRows
    /\ feedback' = Append(feedback, [rec_id |-> rec_id, user_id |-> user_id,
                                      action |-> action, reason |-> reason])
    /\ last' = [op |-> "add_feedback"]
    /\ UNCHANGED <<now, recs, favorites, dismissed, user_weights, applied, nfeedback, nrepo,
                   users, pc, sess, flow_sessions, rec_sessions>>

\* Variant: the reset also deletes the user's Selection Records.
ResetUser_clears_history(user_id) ==
    /\ user_weights' = SelectSeq(user_weights, LAMBDA w : w.user_id # user_id)
    /\ recs' = SelectSeq(recs, LAMBDA r : r.user_id # user_id)
    /\ applied' = [e \in {x \in DOMAIN applied : x.user_id # user_id} |-> applied[e]]
    /\ users' = [u \in DOMAIN users |-> IF u = user_id THEN now ELSE users[u]]
    /\ last' = [op |-> "reset_user", user_id |-> user_id, before |-> user_weights]
    /\ UNCHANGED <<now, favorites, dismissed, nfeedback, nrepo, pc, sess, feedback, flow_sessions, rec_sessions>>

\* UsersRepo.reset_user: DELETE FROM user_weights WHERE user_id, then
\* UPDATE users SET reset_at = now WHERE user_id
ResetUser(user_id) ==
    /\ user_weights' = SelectSeq(user_weights, LAMBDA w : w.user_id # user_id)
    /\ applied' = [e \in {x \in DOMAIN applied : x.user_id # user_id} |-> applied[e]]
    /\ users' = [u \in DOMAIN users |-> IF u = user_id THEN now ELSE users[u]]
    /\ last' = [op |-> "reset_user", user_id |-> user_id, before |-> user_weights]
    /\ UNCHANGED <<now, recs, favorites, dismissed, nfeedback, nrepo, pc, sess, feedback, flow_sessions, rec_sessions>>

\* A day passes.
Tick ==
    /\ now < MaxDay
    /\ now' = now + 1
    /\ last' = [op |-> "tick"]
    /\ UNCHANGED <<recs, favorites, dismissed, user_weights, applied, nfeedback, nrepo, pc, sess, feedback, users, flow_sessions, rec_sessions>>

\* Scored lists for the selector, sorted by score descending: n candidates
\* with falling scores, and n candidates of which the first two share the
\* top score.
Ranked(n) == [i \in 1..n |-> [item_id |-> i, score |-> 900 - 10 * i]]

Tied(n) == [i \in 1..n |-> [item_id |-> i, score |-> IF i <= 2 THEN 900 ELSE 900 - 10 * i]]

ScoredLists ==
    {<<>>} \cup {Ranked(n) : n \in {1, 2, 3, MaxScored}} \cup {Tied(n) : n \in {2, 3, MaxScored}}

\* epsilon in hundredths: never explore, the configured rate, always explore.
Epsilons == {0, recs_epsilon, 100}

\* The draws of a generator: random() at and around the thresholds, choice
\* at both ends of the slice and past its end.
AnyRngs == {AnyRng(u, c) : u \in {0, 29, 30, 99}, c \in {0, 1, 19, MaxScored - 1}}

Seeds == DOMAIN MersenneTwister

\* _epsilon_greedy_select(scored, epsilon, rng); an empty list raises
\* ValueError and returns nothing.
EpsilonGreedySelect(scored, epsilon, rng) ==
    /\ last' = [op |-> "_epsilon_greedy_select", scored |-> scored, epsilon |-> epsilon,
                random |-> rng.random, raised |-> scored = <<>>,
                result |-> IF scored = <<>> THEN <<>>
                           ELSE <<_epsilon_greedy_select(scored, epsilon, rng)>>]
    /\ UNCHANGED <<now, recs, favorites, dismissed, user_weights, applied, nfeedback, nrepo,
                   feedback, users, pc, sess, flow_sessions, rec_sessions>>

\* epsilon_greedy_select_deterministic(scored, epsilon, seed)
EpsilonGreedySelectDeterministic(scored, epsilon, seed) ==
    /\ last' = [op |-> "epsilon_greedy_select_deterministic", scored |-> scored,
                epsilon |-> epsilon, seed |-> seed, random |-> _seeded_random(seed).random,
                raised |-> scored = <<>>,
                result |-> IF scored = <<>> THEN <<>>
                           ELSE <<epsilon_greedy_select_deterministic(scored, epsilon, seed)>>]
    /\ UNCHANGED <<now, recs, favorites, dismissed, user_weights, applied, nfeedback, nrepo,
                   feedback, users, pc, sess, flow_sessions, rec_sessions>>

\* Scoring and selection of get_recommendation (from the seed to the selected
\* candidate) for a non-empty candidate list, run by a process with the hash
\* salt hash_salt on the date today. previous is the outcome of the execution
\* before this one when that one had the same user, date, mode, candidates,
\* effective answers, weight and epsilon. before is the date, the salt and the
\* ranking of the execution before this one when that one differed from this
\* one in the date and the process at most.
ScoreAndSelect(user_id, today, mode, candidates, effective_answers, user_weight, epsilon, hash_salt) ==
    LET seed == _deterministic_seed(user_id, today, mode)
        rng == _seeded_random(seed)
        scored == _score_candidates(candidates, effective_answers, user_weight, parse_hint(<<>>),
                                    hash_salt)
        selected == _epsilon_greedy_select(scored, epsilon, rng)
        args == <<user_id, today, mode, candidates, effective_answers, user_weight, epsilon>>
        order == [i \in DOMAIN scored |-> scored[i].item_id]
    IN  /\ last' = [op |-> "score_and_select", args |-> args, hash_salt |-> hash_salt,
                    explore |-> rng.random < epsilon, item_id |-> selected.item_id,
                    order |-> order,
                    scores |-> [i \in DOMAIN scored |-> scored[i].score],
                    previous |-> IF last.op = "score_and_select" /\ last.args = args
                                 THEN <<[explore |-> last.explore, item_id |-> last.item_id]>>
                                 ELSE <<>>,
                    before |-> IF last.op = "score_and_select"
                                    /\ [last.args EXCEPT ![2] = today] = args
                               THEN <<[today |-> last.args[2], hash_salt |-> last.hash_salt,
                                       order |-> last.order]>>
                               ELSE <<>>]
        /\ UNCHANGED <<now, recs, favorites, dismissed, user_weights, applied, nfeedback, nrepo,
                       feedback, users, pc, sess, flow_sessions, rec_sessions>>

\* The candidate lists, answers and weights ScoreAndSelect is run with.
HeavySlow == [state |-> "heavy", pace |-> "slow", format |-> "movie"]

SelectCandidates == { <<"m1", "m2">>, <<"m2", "m1">>, <<"m1">> }

SelectWeights == {0, 2}

\* Inputs of the text generators: selection ids, answers with known, unknown
\* and absent state and pace, delta types and new values.
RecIds == {"1", "2", "3", "delta"}

TextAnswers ==
    {[state |-> s, pace |-> p, format |-> "movie"] :
        s \in {"light", "heavy", "escape", "bored"}, p \in {"slow", "fast", "medium"}}
    \cup {Partial}

DeltaTypes == {"pace_flipped", "tone_shifted", "format_flipped", "mood_flipped"}

NewValues == {"slow", "fast", "movie", "series", ""}

RECURSIVE Reverse(_)
Reverse(s) == IF s = <<>> THEN <<>> ELSE Reverse(Tail(s)) \o <<Head(s)>>

\* Iteration orders of SPOILER_KEYWORDS in two processes.
KeywordOrders == {SpoilerList, Reverse(SpoilerList)}

\* The result of the call before this one when it was the same call.
PreviousResult(op, args) ==
    IF last.op = op /\ last.args = args THEN <<last.result>> ELSE <<>>

\* generate_rationale(rec_id, answers), followed by validate_rationale on
\* what it returned.
GenerateRationale(rec_id, answers, order) ==
    \E result \in {generate_rationale(rec_id, answers, order)} :
        /\ last' = [op |-> "generate_rationale", args |-> <<rec_id, answers>>, result |-> result,
                    valid |-> validate_rationale(result),
                    previous |-> PreviousResult("generate_rationale", <<rec_id, answers>>)]
        /\ UNCHANGED <<now, recs, favorites, dismissed, user_weights, applied, nfeedback, nrepo,
                       feedback, users, pc, sess, flow_sessions, rec_sessions>>

\* generate_when_to_watch(rec_id, answers)
GenerateWhenToWatch(rec_id, answers) ==
    /\ last' = [op |-> "generate_when_to_watch", args |-> <<rec_id, answers>>,
                result |-> generate_when_to_watch(rec_id, answers),
                previous |-> PreviousResult("generate_when_to_watch", <<rec_id, answers>>)]
    /\ UNCHANGED <<now, recs, favorites, dismissed, user_weights, applied, nfeedback, nrepo,
                   feedback, users, pc, sess, flow_sessions, rec_sessions>>

\* generate_delta_explainer(delta_type, new_value, rec_id)
GenerateDeltaExplainer(delta_type, new_value, rec_id) ==
    /\ last' = [op |-> "generate_delta_explainer", args |-> <<delta_type, new_value, rec_id>>,
                result |-> generate_delta_explainer(delta_type, new_value, rec_id),
                previous |-> PreviousResult("generate_delta_explainer",
                                            <<delta_type, new_value, rec_id>>)]
    /\ UNCHANGED <<now, recs, favorites, dismissed, user_weights, applied, nfeedback, nrepo,
                   feedback, users, pc, sess, flow_sessions, rec_sessions>>

\* The contexts a caller can hand in as last_context: none, or the stored
\* context of a Selection Record.
LastContexts == {EmptyDict} \cup {recs[i].context : i \in DOMAIN recs}

RecommendStep(who, requests, modes, excludes, keywords, draws) ==
    \E user_id \in who, answers \in requests, mode \in modes, ex \in excludes, d \in draws :
        \E lc \in (IF mode = "another" THEN LastContexts ELSE {EmptyDict}),
           en \in (IF "hint" \in DOMAIN answers THEN keywords ELSE {{}}) :
            GetRecommendation(user_id, answers, mode, ex, lc, en, AnyRng(d[1], d[2]), d[3])

FeedbackStep(who, inputs) ==
    \E user_id \in who, rec_id \in 1..(Len(recs) + 1), in \in inputs :
        UpdateWeights(user_id, rec_id, in[1], in[2])

Next ==
    \/ RecommendStep(Users, Requests, Modes, ExcludeSets, EnKeywordSets, Draws)
    \/ FeedbackStep(Users, FeedbackActions \X Reasons)
    \/ \E user_id \in Users, deltas \in BulkDeltas : BulkAddWeightDeltas(user_id, deltas)
    \/ \E user_id \in Users, d \in DirectDeltas : AddWeightDelta(user_id, d[1], d[2])
    \/ \E user_id \in Users, item_id \in ItemIds : AddFavorite(user_id, item_id)
    \/ \E user_id \in Users, item_id \in ItemIds : RemoveFavorite(user_id, item_id)
    \/ \E user_id \in Users, item_id \in ItemIds : AddDismissed(user_id, item_id)
    \/ \E user_id \in Users : ResetUser(user_id)
    \/ \E user_id \in Users, rec_id \in DOMAIN recs, in \in FeedbackActions \X Reasons :
          AddFeedback(user_id, rec_id, in[1], in[2])
    \/ Tick
    \/ \E scored \in ScoredLists, epsilon \in Epsilons, rng \in AnyRngs :
          EpsilonGreedySelect(scored, epsilon, rng)
    \/ \E scored \in ScoredLists, epsilon \in Epsilons, seed \in Seeds :
          EpsilonGreedySelectDeterministic(scored, epsilon, seed)
    \/ \E user_id \in Users, today \in 0..MaxDay, mode \in Modes, candidates \in SelectCandidates,
          answers \in Requests \cup {HeavySlow}, user_weight \in SelectWeights,
          hash_salt \in HashSalts :
          ScoreAndSelect(user_id, today, mode, candidates, answers, user_weight, recs_epsilon,
                         hash_salt)
    \/ \E rec_id \in RecIds, answers \in TextAnswers, order \in KeywordOrders :
          GenerateRationale(rec_id, answers, order)
    \/ \E rec_id \in RecIds, answers \in TextAnswers : GenerateWhenToWatch(rec_id, answers)
    \/ \E delta_type \in DeltaTypes, new_value \in NewValues, rec_id \in RecIds :
          GenerateDeltaExplainer(delta_type, new_value, rec_id)

\* The whole machine.
Spec == Init /\ [][Next]_vars

(***************************************************************************)
(* Slices of the machine: the same actions, for the user u1, with the      *)
(* inputs that the properties of one component depend on.                  *)
(***************************************************************************)
\* Anti-repeat: recommendations, favorites, dismissals and the clock.
NextRepeat ==
    \/ RecommendStep({"u1"}, {Plain, Series}, {"normal"}, ExcludeSets, {{}}, Draws)
    \/ \E item_id \in ItemIds : AddFavorite("u1", item_id)
    \/ \E item_id \in ItemIds : RemoveFavorite("u1", item_id)
    \/ \E item_id \in {"m1", "m2"} : AddDismissed("u1", item_id)
    \/ Tick

SpecRepeat == Init /\ [][NextRepeat]_vars

\* Learning: recommendations in several contexts, feedback on any of them,
\* an earlier bulk update of the user's weights.
NextLearn ==
    \/ RecommendStep({"u1"}, {Partial, HintedSeries}, Modes, {{}}, {{}}, {<<60, 0, 0>>})
    \/ FeedbackStep({"u1"}, LearnInputs)
    \/ \E deltas \in {d \in BulkDeltas : "tone:warm" \in DOMAIN d} : BulkAddWeightDeltas("u1", deltas)

SpecLearn == Init /\ [][NextLearn]_vars

\* The weights table: every writer of it, for both users.
NextWeights ==
    \/ FeedbackStep(Users, WeightInputs)
    \/ \E user_id \in Users, deltas \in BulkDeltas : BulkAddWeightDeltas(user_id, deltas)
    \/ \E user_id \in Users, d \in DirectDeltas : AddWeightDelta(user_id, d[1], d[2])
    \/ \E user_id \in Users : ResetUser(user_id)

SpecWeights == Init /\ [][NextWeights]_vars

\* Reset: a user with history and weights, and the /reset of either user.
NextReset ==
    \/ RecommendStep({"u1"}, {Plain}, {"normal"}, {{}}, {{}}, {<<60, 0, 0>>})
    \/ AddFavorite("u1", "m1")
    \/ AddDismissed("u1", "s1")
    \/ \E rec_id \in DOMAIN recs : AddFeedback("u1", rec_id, "hit", None)
    \/ \E user_id \in Users : AddWeightDelta(user_id, context_key(Plain), 1)
    \/ \E user_id \in Users : ResetUser(user_id)

SpecReset == Init /\ [][NextReset]_vars

\* "Another": requests in both modes, with every stored context as the last
\* context.
NextAnother ==
    \/ RecommendStep({"u1"}, {Plain, Partial, Fast, HintedSeries}, Modes, {{}}, {{}}, {<<60, 0, 0>>})

SpecAnother == Init /\ [][NextAnother]_vars

\* Selection: the selector on lists of every shape, and scoring with
\* selection from the date-derived seed in processes of either hash salt.
NextSelect ==
    \/ \E scored \in ScoredLists, epsilon \in Epsilons, rng \in AnyRngs :
          EpsilonGreedySelect(scored, epsilon, rng)
    \/ \E scored \in ScoredLists, epsilon \in Epsilons, seed \in Seeds :
          EpsilonGreedySelectDeterministic(scored, epsilon, seed)
    \/ \E user_id \in Users, today \in 0..MaxDay, mode \in Modes, candidates \in SelectCandidates,
          answers \in {Plain, HeavySlow}, user_weight \in SelectWeights, hash_salt \in HashSalts :
          ScoreAndSelect(user_id, today, mode, candidates, answers, user_weight, recs_epsilon,
                         hash_salt)

SpecSelect == Init /\ [][NextSelect]_vars

\* Texts: every generator on every input, in processes with either
\* iteration order of the keyword set.
NextText ==
    \/ \E rec_id \in RecIds, answers \in TextAnswers, order \in KeywordOrders :
          GenerateRationale(rec_id, answers, order)
    \/ \E rec_id \in RecIds, answers \in TextAnswers : GenerateWhenToWatch(rec_id, answers)
    \/ \E delta_type \in DeltaTypes, new_value \in NewValues, rec_id \in RecIds :
          GenerateDeltaExplainer(delta_type, new_value, rec_id)

SpecText == Init /\ [][NextText]_vars

(***************************************************************************)
(* Two storage sessions run WeightsRepo.add_weight_delta for the user u1   *)
(* at the same time. Each statement is one step on the shared table, and   *)
(* the steps of the two sessions interleave in every order; the schedules  *)
(* a database that lets one session write at a time allows are among them. *)
(***************************************************************************)
Sessions == {"A", "B"}

RaceKeys == {context_key(Plain), context_key(Series)}

RaceDeltas == {-2, 1, 2}

\* The tables the sessions can find: u1 has no row, or a row of weight 3
\* for the first key (the table after a bulk update).
RaceTables ==
    { << [user_id |-> "u2", key |-> context_key(Plain), weight |-> 1] >>,
      << [user_id |-> "u2", key |-> context_key(Plain), weight |-> 1],
         [user_id |-> "u1", key |-> context_key(Plain), weight |-> 3] >> }

InitRace ==
    /\ now = 0
    /\ recs = << [rec_id |-> 1, user_id |-> "u2", item_id |-> "m2",
                  context |-> Merge(Plain, [mode |-> "normal"]), created_at |-> 0] >>
    /\ favorites = << [user_id |-> "u2", item_id |-> "m1"] >>
    /\ dismissed = { [user_id |-> "u2", item_id |-> "s1"] }
    /\ user_weights \in RaceTables
    /\ applied = EmptyBag
    /\ nfeedback = 0
    /\ nrepo = 0
    /\ feedback = << [rec_id |-> 1, user_id |-> "u2", action |-> "another", reason |-> None] >>
    /\ users = [u \in Users |-> NoReset]
    /\ last = [op |-> "race", before |-> user_weights]
    /\ pc = [s \in Sessions |-> "update"]
    /\ sess \in [Sessions -> [user_id : {"u1"}, key : RaceKeys, delta : RaceDeltas, rowcount : {-1}]]
    /\ flow_sessions = InitFlowSessions
    /\ rec_sessions = InitRecSessions

\* result = await self.session.execute(update_stmt)
SessionUpdate(s) ==
    /\ pc[s] = "update"
    /\ user_weights' = UpdateStmt(user_weights, sess[s].user_id, sess[s].key, sess[s].delta)
    /\ sess' = [sess EXCEPT ![s].rowcount = RowCount(user_weights, sess[s].user_id, sess[s].key)]
    /\ pc' = [pc EXCEPT ![s] = IF RowCount(user_weights, sess[s].user_id, sess[s].key) = 0
                                THEN "upsert" ELSE "commit"]
    /\ UNCHANGED <<now, recs, favorites, dismissed, applied, nfeedback, nrepo, last, feedback, users, flow_sessions, rec_sessions>>

\* if result.rowcount == 0: await self.session.execute(upsert_stmt)
SessionUpsert(s) ==
    /\ pc[s] = "upsert"
    /\ user_weights' = UpsertStmt(user_weights, sess[s].user_id, sess[s].key, sess[s].delta)
    /\ pc' = [pc EXCEPT ![s] = "commit"]
    /\ UNCHANGED <<now, recs, favorites, dismissed, applied, nfeedback, nrepo, last, sess, feedback, users, flow_sessions, rec_sessions>>

\* await self.session.commit()
SessionCommit(s) ==
    /\ pc[s] = "commit"
    /\ pc' = [pc EXCEPT ![s] = "done"]
    /\ applied' = applied (+) SetToBag({[user_id |-> sess[s].user_id, key |-> sess[s].key,
                                         delta |-> sess[s].delta]})
    /\ UNCHANGED <<now, recs, favorites, dismissed, user_weights, nfeedback, nrepo, last, sess, feedback, users, flow_sessions, rec_sessions>>

NextRace ==
    \/ \E s \in Sessions : SessionUpdate(s)
    \/ \E s \in Sessions : SessionUpsert(s)
    \/ \E s \in Sessions : SessionCommit(s)

SpecRace == InitRace /\ [][NextRace]_vars

(***************************************************************************)
(* Anti-repeat properties, checked on SpecRepeat.                          *)
(***************************************************************************)
\* The Selection Records that existed when the last call started.
RecsBeforeLast ==
    IF last.op = "get_recommendation" /\ last.found THEN SubSeq(recs, 1, Len(recs) - 1) ELSE recs

\* The items recommended to the user inside the window, before the last call.
RecentBeforeLast(user_id) ==
    {RecsBeforeLast[i].item_id : i \in {j \in DOMAIN RecsBeforeLast :
        /\ RecsBeforeLast[j].user_id = user_id
        /\ RecsBeforeLast[j].created_at >= now - recs_anti_repeat_days}}

\* C1: the item a get_recommendation call returns is never in the exclusion
\* set computed for that call: it is not in the caller's exclude_item_ids, it
\* is not dismissed by the user, and it was not recommended to the user inside
\* the anti-repeat window unless it is a favorite.
C1_ReturnedItemNotExcluded ==
    (last.op = "get_recommendation" /\ last.found) =>
        /\ last.item_id \notin last.excluded
        /\ last.item_id \notin last.exclude_item_ids
        /\ last.item_id \notin list_dismissed_ids(last.user_id)
        /\ (last.item_id \in RecentBeforeLast(last.user_id)
                => is_favorited(last.user_id, last.item_id))

\* A call returned a favorite that was recommended inside the window while
\* other items were excluded as dismissed and by the caller.
C1_Witness ==
    /\ last.op = "get_recommendation" /\ last.found
    /\ last.item_id \in RecentBeforeLast(last.user_id)
    /\ last.exclude_item_ids # {}
    /\ list_dismissed_ids(last.user_id) # {}
    /\ last.excluded # {}

\* C2: every item a user dismissed is in get_excluded_item_ids(user), whether
\* or not it is a favorite and whether or not it was ever recommended.
C2_DismissedAlwaysExcluded ==
    \A user_id \in Users :
        list_dismissed_ids(user_id) \subseteq get_excluded_item_ids(user_id, {}, 0)

\* An item is dismissed, favorited and recommended to the same user, and
\* another dismissed item was never recommended to that user.
C2_Witness ==
    \E item_id \in list_dismissed_ids("u1"), other \in list_dismissed_ids("u1") :
        /\ is_favorited("u1", item_id)
        /\ \E i \in DOMAIN recs : recs[i].user_id = "u1" /\ recs[i].item_id = item_id
        /\ \A i \in DOMAIN recs : recs[i].user_id = "u1" => recs[i].item_id # other
        /\ {item_id, other} \subseteq get_excluded_item_ids("u1", {}, 0)

\* C3: an item that is in the user's favorites and not dismissed is never in
\* get_excluded_item_ids(user) called without additional excludes, even if it
\* was recommended inside the anti-repeat window, however many favorites the
\* user has.
C3_FavoriteNeverExcluded ==
    \A user_id \in Users, item_id \in ItemIds :
        (is_favorited(user_id, item_id) /\ item_id \notin list_dismissed_ids(user_id))
            => item_id \notin get_excluded_item_ids(user_id, {}, 0)

(***************************************************************************)
(* Weight store properties, checked on SpecWeights and SpecRace.           *)
(***************************************************************************)
\* The sum of the deltas of a bag of applied deltas for one user and key.
RECURSIVE SumDeltas(_, _, _, _)
SumDeltas(bag, entries, user_id, key) ==
    IF entries = {} THEN 0
    ELSE LET e == CHOOSE x \in entries : TRUE
         IN  (IF e.user_id = user_id /\ e.key = key THEN e.delta * bag[e] ELSE 0)
                + SumDeltas(bag, entries \ {e}, user_id, key)

\* The keys that have a row or received a delta, and one that never did.
SeenKeys ==
    {user_weights[i].key : i \in DOMAIN user_weights} \cup {e.key : e \in DOMAIN applied}
        \cup {"state:heavy|pace:fast|format:series"}

\* C4: the stored weight of (user, key) is the sum of the deltas applied to
\* the key since the user's last reset, whatever the order they came in; a
\* key that received no delta has no row and reads as 0.
C4_WeightIsSumOfDeltas ==
    \A user_id \in Users, key \in SeenKeys :
        /\ get_weight(user_id, key) = SumDeltas(applied, DOMAIN applied, user_id, key)
        /\ RowCount(user_weights, user_id, key) <= 1
        /\ (\A e \in DOMAIN applied : ~(e.user_id = user_id /\ e.key = key))
              => (RowCount(user_weights, user_id, key) = 0 /\ get_weight(user_id, key) = 0)

\* A key of u1 received three deltas of both signs, one of them from feedback,
\* and holds their non-zero sum.
C4_Witness ==
    /\ nfeedback = 1 /\ nrepo = 2
    /\ \E e1 \in DOMAIN applied, e2 \in DOMAIN applied :
          /\ e1.user_id = "u1" /\ e2.user_id = "u1" /\ e1.key = e2.key
          /\ e1.delta > 0 /\ e2.delta < 0
          /\ applied[e1] + applied[e2] = 3
          /\ get_weight("u1", e1.key) = e1.delta * applied[e1] + e2.delta * applied[e2]
          /\ get_weight("u1", e1.key) # 0

\* The deltas the two sessions add to a key.
SessionDeltas(key) ==
    (IF sess["A"].key = key THEN sess["A"].delta ELSE 0)
        + (IF sess["B"].key = key THEN sess["B"].delta ELSE 0)

\* C5: when two add_weight_delta calls for the same user run in different
\* sessions with their statements interleaved in any order, then once both
\* committed every key holds its initial weight plus the deltas of both
\* sessions, in exactly one row: no delta is lost, none is applied twice.
C5_ConcurrentDeltasBothApplied ==
    (DOMAIN pc = Sessions /\ \A s \in Sessions : pc[s] = "done") =>
        \A key \in RaceKeys :
            /\ get_weight("u1", key) = WeightIn(last.before, "u1", key) + SessionDeltas(key)
            /\ RowCount(user_weights, "u1", key)
                  = (IF key \in {sess[s].key : s \in Sessions}
                        \/ RowCount(last.before, "u1", key) = 1 THEN 1 ELSE 0)

\* Both sessions updated the same key, no row existed when they started, and
\* the UPDATE of each found no row before either inserted.
C5_Witness ==
    /\ DOMAIN pc = Sessions /\ \A s \in Sessions : pc[s] = "done"
    /\ sess["A"].key = sess["B"].key
    /\ sess["A"].rowcount = 0 /\ sess["B"].rowcount = 0
    /\ RowCount(last.before, "u1", sess["A"].key) = 0
    /\ get_weight("u1", sess["A"].key) = sess["A"].delta + sess["B"].delta

(***************************************************************************)
(* Learning properties, checked on SpecLearn. They compare the table       *)
(* before and after the last update_weights call.                          *)
(***************************************************************************)
KnownActions == {"hit", "favorite", "share", "another", "silent_drop", "miss"}

ExpectedReward(action) ==
    CASE action \in {"hit", "favorite", "share"} -> 2
      [] action = "another" -> 1
      [] action = "silent_drop" -> -1
      [] action = "miss" -> -2

KeyOf(state, pace, format) == "state:" \o state \o "|pace:" \o pace \o "|format:" \o format

OppositePace(pace) == IF pace = "slow" THEN "fast" ELSE "slow"

\* The last operation was update_weights on a Selection Record that exists.
FeedbackOnRecord == last.op = "update_weights" /\ last.rec_id \in DOMAIN recs

\* State, pace and format of the Selection Record the last feedback named.
StoredState == Get(recs[last.rec_id].context, "state", "escape")
StoredPace == Get(recs[last.rec_id].context, "pace", "slow")
StoredFormat == Get(recs[last.rec_id].context, "format", "movie")
StoredKey == KeyOf(StoredState, StoredPace, StoredFormat)

\* What the last update_weights call did to the weights: <<user, key, change>>.
LastEffect ==
    LET keys == {user_weights[i].key : i \in DOMAIN user_weights}
                    \cup {last.before[i].key : i \in DOMAIN last.before}
    IN  {e \in {<<u, k, get_weight(u, k) - WeightIn(last.before, u, k)>> : u \in Users, k \in keys} :
            e[3] # 0}

\* The rows other than those of the given keys of the calling user are as before.
OtherRowsUnchanged(keys) ==
    SelectSeq(user_weights, LAMBDA w : ~(w.user_id = last.user_id /\ w.key \in keys))
        = SelectSeq(last.before, LAMBDA w : ~(w.user_id = last.user_id /\ w.key \in keys))

\* C6: each action of the reward table, applied with no reason to an existing
\* selection, changes exactly one weight, the one of the selection's context
\* key, by hit=+2, favorite=+2, share=+2, another=+1, silent_drop=-1, miss=-2,
\* and returns exactly the map {that key: that delta}.
C6_RewardTableSingleKey ==
    (FeedbackOnRecord /\ last.reason = None /\ last.action \in KnownActions) =>
        /\ last.result = (StoredKey :> ExpectedReward(last.action))
        /\ LastEffect = {<<last.user_id, StoredKey, ExpectedReward(last.action)>>}
        /\ OtherRowsUnchanged({StoredKey})

\* An "another" press with no reason moved an existing weight from -1 to 0.
C6_Witness ==
    /\ FeedbackOnRecord /\ last.reason = None /\ last.action = "another"
    /\ WeightIn(last.before, last.user_id, StoredKey) = -1
    /\ get_weight(last.user_id, StoredKey) = 0
    /\ last.result = (StoredKey :> 1)

\* The answers a request carries once its hint is applied.
AfterHint(answers) ==
    IF answers = HintedSeries THEN [state |-> "heavy", pace |-> "fast", format |-> "series"]
    ELSE IF answers = Hinted THEN [state |-> "light", pace |-> "fast", format |-> "movie"]
    ELSE answers

\* State, pace and format a selection is made with: the hint applied, the
\* pace flipped for an "another" whose last context records no flip.
EffectiveTriple(answers, mode, last_context) ==
    LET a == AfterHint(answers)
        flip == /\ mode = "another" /\ last_context # EmptyDict
                /\ ~Get(Get(last_context, "delta", EmptyDict), "pace_flipped", FALSE)
        pace == Get(a, "pace", "slow")
    IN  <<Get(a, "state", "escape"), IF flip THEN OppositePace(pace) ELSE pace,
          Get(a, "format", "movie")>>

\* C7: the key update_weights changes comes from the state, pace and format
\* stored in the Selection Record, which are those of the effective answers
\* of the selection (after hint overrides and the "another" pace flip), with
\* escape/slow/movie for missing fields; feedback on a selection made with a
\* flipped pace updates the flipped-pace key.
C7_KeyFromStoredContext ==
    /\ (last.op = "get_recommendation" /\ last.found) =>
          LET ctx == recs[last.rec_id].context
          IN  <<Get(ctx, "state", "escape"), Get(ctx, "pace", "slow"), Get(ctx, "format", "movie")>>
                = EffectiveTriple(last.answers, last.mode, last.last_context)
    /\ (FeedbackOnRecord /\ last.action \in KnownActions) =>
          /\ StoredKey \in DOMAIN last.result
          /\ last.result[StoredKey] = ExpectedReward(last.action)
          /\ <<last.user_id, StoredKey, ExpectedReward(last.action)>> \in LastEffect

\* Feedback on a hinted selection made with a flipped pace changed the key of
\* the flipped pace.
C7_Witness ==
    /\ FeedbackOnRecord /\ last.action = "hit"
    /\ "delta" \in DOMAIN recs[last.rec_id].context
    /\ Get(recs[last.rec_id].context.delta, "pace_flipped", FALSE)
    /\ "hint" \in DOMAIN recs[last.rec_id].context
    /\ get_weight(last.user_id, "state:heavy|pace:slow|format:series")
          = WeightIn(last.before, last.user_id, "state:heavy|pace:slow|format:series") + 2

C10_CorrectionOnlyOnMiss ==
    (FeedbackOnRecord /\ last.action \in (KnownActions \ {"miss"})
        /\ last.reason \in {"tooslow", "tooheavy"}) =>
        /\ LastEffect = {<<last.user_id, StoredKey, ExpectedReward(last.action)>>}
        /\ last.result = (StoredKey :> ExpectedReward(last.action))

\* C11: update_weights with an action outside the reward table, or with a
\* selection id that names no Selection Record, returns an empty map and
\* leaves every weight row as it was.
C11_UnknownActionOrRecordIsNoOp ==
    (last.op = "update_weights"
        /\ (last.action \notin KnownActions \/ last.rec_id \notin DOMAIN recs)) =>
        /\ last.result = EmptyDict
        /\ user_weights = last.before

\* An unknown action came with a reason for an existing selection while the
\* user already had a weight row.
C11_Witness ==
    /\ FeedbackOnRecord /\ last.action = "skip" /\ last.reason = "tooslow"
    /\ \E i \in DOMAIN last.before : last.before[i].user_id = last.user_id
    /\ last.result = EmptyDict

(***************************************************************************)
(* Reset, checked on SpecReset.                                            *)
(***************************************************************************)
\* C12: a reset removes every weight of the user (each key reads 0
\* afterwards) and leaves unchanged the user's Selection Records, feedback
\* rows, favorites and dismissals and every other user's weights; the
\* user's anti-repeat exclusion set is the same before and after.
C12_ResetClearsOnlyWeights ==
    [][ \A u \in Users : (last'.op = "reset_user" /\ last'.user_id = u) =>
          /\ \A i \in DOMAIN user_weights' : user_weights'[i].user_id # u
          /\ \A i \in DOMAIN user_weights : get_weight(u, user_weights[i].key)' = 0
          /\ user_weights' = SelectSeq(user_weights, LAMBDA w : w.user_id # u)
          /\ recs' = recs /\ feedback' = feedback
          /\ favorites' = favorites /\ dismissed' = dismissed
          /\ get_excluded_item_ids(u, {}, 0)' = get_excluded_item_ids(u, {}, 0) ]_vars

\* u1 was reset while holding weights, a Selection Record inside the window,
\* a feedback row, a favorite and a dismissal, and u2 kept its weight.
C12_Witness ==
    /\ last.op = "reset_user" /\ last.user_id = "u1"
    /\ \E i \in DOMAIN last.before : last.before[i].user_id = "u1"
    /\ \E i \in DOMAIN recs : recs[i].user_id = "u1"
    /\ \E i \in DOMAIN feedback : feedback[i].user_id = "u1"
    /\ is_favorited("u1", "m1") /\ "s1" \in list_dismissed_ids("u1")
    /\ get_excluded_item_ids("u1", {}, 0) = {"s1"}
    /\ get_weight("u2", context_key(Plain)) > 0

(***************************************************************************)
(* The Selection Record, checked on SpecRepeat.                            *)
(***************************************************************************)
\* C13: a get_recommendation call creates a Selection Record if and only if
\* it returns a result: a result comes with exactly one new record, of the
\* result's user and item; when no candidate remains the call returns None,
\* creates no record and changes no weight.
C13_RecordIffResult ==
    [][ (last'.op = "get_recommendation") =>
          /\ user_weights' = user_weights
          /\ last'.found
                <=> {i \in ItemIds : Catalog[i].type = last'.item_type /\ i \notin last'.excluded} # {}
          /\ IF last'.found
             THEN /\ Len(recs') = Len(recs) + 1
                  /\ SubSeq(recs', 1, Len(recs)) = recs
                  /\ recs'[Len(recs')].user_id = last'.user_id
                  /\ recs'[Len(recs')].item_id = last'.item_id
                  /\ recs'[Len(recs')].rec_id = last'.rec_id
                  /\ \A i \in DOMAIN recs : recs[i].rec_id # last'.rec_id
             ELSE recs' = recs ]_vars

\* A call found every item of the format excluded and returned None after
\* earlier calls of the user had returned items.
C13_Witness ==
    /\ last.op = "get_recommendation" /\ ~last.found
    /\ \E i \in DOMAIN recs : recs[i].user_id = last.user_id
    /\ last.excluded # {}

(***************************************************************************)
(* "Another", checked on SpecAnother.                                      *)
(***************************************************************************)
\* The answers _apply_another_delta receives: the caller's, with what the
\* hint overrides.
GivenAnswers == Merge(last.answers, AfterHint(last.answers))

AnotherWithContext ==
    last.op = "get_recommendation" /\ last.mode = "another" /\ last.last_context # EmptyDict

LastContextFlipped ==
    Get(Get(last.last_context, "delta", EmptyDict), "pace_flipped", FALSE)

\* C14: in "another" mode with a non-empty last context whose delta has no
\* pace_flipped, the effective answers are the given answers with the pace
\* flipped (slow to fast, fast to slow; an absent pace counts as slow) and
\* every other field as given, the delta is exactly {pace_flipped: true}, in
\* the result and in the stored context, and the delta explainer is a text
\* that names the new pace.
C14_FirstAnotherFlipsPace ==
    (AnotherWithContext /\ ~LastContextFlipped) =>
        LET pace == Get(GivenAnswers, "pace", "slow")
            new_pace == IF pace = "slow" THEN "fast" ELSE "slow"
        IN  /\ pace \in {"slow", "fast"}
            /\ last.effective_answers = Merge(GivenAnswers, [pace |-> new_pace])
            /\ last.delta_info = [pace_flipped |-> TRUE]
            /\ last.found => recs[last.rec_id].context.delta = [pace_flipped |-> TRUE]
            /\ last.delta_explainer # <<>>
            /\ Contains(last.delta_explainer[1], PACE_WORDS_UA[new_pace])
            /\ ~Contains(last.delta_explainer[1], PlaceholderNewPace)

\* A fast request was answered in "another" mode after a context without a
\* flip: the selection was made for the slow pace.
C14_Witness ==
    /\ AnotherWithContext /\ ~LastContextFlipped /\ last.found
    /\ last.answers = Fast
    /\ last.last_context \in {recs[i].context : i \in DOMAIN recs}
    /\ recs[last.rec_id].context.pace = "slow"

\* C15: in "another" mode with a last context whose delta has pace_flipped,
\* the effective answers are the given answers, field by field, the delta is
\* exactly {tone_shifted: true}, in the result and in the stored context, and
\* the delta explainer is a text of the tone_shifted bank.
C15_SecondAnotherShiftsTone ==
    (AnotherWithContext /\ LastContextFlipped) =>
        /\ last.effective_answers = GivenAnswers
        /\ last.delta_info = [tone_shifted |-> TRUE]
        /\ last.found => recs[last.rec_id].context.delta = [tone_shifted |-> TRUE]
        /\ last.delta_explainer # <<>>
        /\ last.delta_explainer[1] \in Range(DELTA_EXPLAINERS["tone_shifted"])

\* A second "another" in a row: the last context is the stored context of
\* the first, which recorded the flip, and a selection was made.
C15_Witness ==
    /\ AnotherWithContext /\ LastContextFlipped /\ last.found
    /\ last.answers = Fast
    /\ \E i \in DOMAIN recs : /\ recs[i].user_id = last.user_id /\ i # last.rec_id
                              /\ recs[i].context = last.last_context
    /\ recs[last.rec_id].context.pace = last.answers.pace

(***************************************************************************)
(* The selector, checked on SpecSelect.                                    *)
(***************************************************************************)
SelectorCalled ==
    /\ last.op \in {"_epsilon_greedy_select", "epsilon_greedy_select_deterministic"}
    /\ last.scored # <<>>

\* C16: with epsilon 0.0 the selector returns the first candidate of a
\* non-empty list sorted by score descending, whatever the generator draws:
\* no candidate of the list scores higher, and of the candidates with the top
\* score it is the one that comes first.
C16_EpsilonZeroPicksFirst ==
    (SelectorCalled /\ last.epsilon = 0) =>
        /\ last.result = <<last.scored[1]>>
        /\ \A i \in DOMAIN last.scored : last.scored[i].score <= last.result[1].score
        /\ \A i \in DOMAIN last.scored :
              last.scored[i].score = last.result[1].score => last.result[1].item_id <= i

\* Epsilon 0.0, a generator whose random() is below 0.01, a long list whose
\* first two candidates tie: the first was returned.
C16_Witness ==
    /\ SelectorCalled /\ last.epsilon = 0 /\ last.random = 0
    /\ Len(last.scored) = MaxScored
    /\ last.scored[1].score = last.scored[2].score
    /\ last.result[1].item_id = 1

\* C17: for every epsilon and generator the selector returns one of the first
\* min(20, n) candidates of a non-empty sorted list of length n: the first
\* when random() is not below epsilon (exploit), and otherwise (explore) a
\* candidate whose rank is at most 20.
C17_ResultAmongTopTwenty ==
    SelectorCalled =>
        LET n == Len(last.scored)
            top == IF n < 20 THEN n ELSE 20
        IN  /\ \E i \in 1..top : last.result = <<last.scored[i]>>
            /\ last.random >= last.epsilon => last.result = <<last.scored[1]>>
            /\ \A i \in DOMAIN last.scored : last.result = <<last.scored[i]>> => i <= 20

\* An explore on a list longer than 20 returned the candidate of rank 20.
C17_Witness ==
    /\ SelectorCalled /\ last.random < last.epsilon
    /\ Len(last.scored) > 20
    /\ last.result = <<last.scored[20]>>

\* C18: two executions of scoring and selection with the same user, date,
\* mode, candidates, effective answers, weight and epsilon take the same
\* explore-or-exploit decision and select the same item.
C18_SameInputsSameSelection ==
    (last.op = "score_and_select" /\ last.previous # <<>>) =>
        /\ last.explore = last.previous[1].explore
        /\ last.item_id = last.previous[1].item_id

\* The part of C18 the code keeps: the explore-or-exploit decision is the
\* same in both executions.
SameInputsSameDecision ==
    (last.op = "score_and_select" /\ last.previous # <<>>) =>
        last.explore = last.previous[1].explore

(***************************************************************************)
(* Texts, checked on SpecText.                                             *)
(***************************************************************************)
\* sha256(id + salt) mod n, the digest read as the code reads it (its first
\* four bytes, big-endian), computed with hashlib for every id, salt and bank
\* length in use.
HashIndex ==
    ( <<"1", "rationale", 5>> :> 2 @@ <<"1", "rationale", 3>> :> 2 @@ <<"1", "pace_mod", 2>> :> 1 @@
      <<"1", "pace", 3>> :> 1 @@ <<"1", "when", 3>> :> 2 @@ <<"1", "delta", 3>> :> 2 @@
      <<"2", "rationale", 5>> :> 2 @@ <<"2", "rationale", 3>> :> 1 @@ <<"2", "pace_mod", 2>> :> 1 @@
      <<"2", "pace", 3>> :> 2 @@ <<"2", "when", 3>> :> 0 @@ <<"2", "delta", 3>> :> 2 @@
      <<"3", "rationale", 5>> :> 1 @@ <<"3", "rationale", 3>> :> 0 @@ <<"3", "pace_mod", 2>> :> 0 @@
      <<"3", "pace", 3>> :> 1 @@ <<"3", "when", 3>> :> 1 @@ <<"3", "delta", 3>> :> 0 @@
      <<"delta", "rationale", 5>> :> 4 @@ <<"delta", "rationale", 3>> :> 1 @@ <<"delta", "pace_mod", 2>> :> 0 @@
      <<"delta", "pace", 3>> :> 0 @@ <<"delta", "when", 3>> :> 0 @@ <<"delta", "delta", 3>> :> 1 )

\* The template at index sha256(rec_id + salt) mod len(bank), counted from 0.
Picked(bank, rec_id, salt) == bank[HashIndex[<<rec_id, salt, Len(bank)>>] + 1]

TextOps == {"generate_rationale", "generate_when_to_watch", "generate_delta_explainer"}

\* The text a delta template becomes once its placeholder is filled in.
Filled(template, delta_type, new_value) ==
    LET word == IF delta_type = "pace_flipped" /\ new_value \in DOMAIN PACE_WORDS_UA
                THEN PACE_WORDS_UA[new_value]
                ELSE IF delta_type = "format_flipped" /\ new_value \in DOMAIN FORMAT_WORDS_UA
                THEN FORMAT_WORDS_UA[new_value]
                ELSE IF new_value = "" THEN <<>> ELSE ValueText[new_value]
        hole == IF delta_type = "pace_flipped" THEN PlaceholderNewPace
                ELSE IF delta_type = "format_flipped" THEN PlaceholderNewFormat ELSE <<>>
    IN  IF hole = <<>> THEN template
        ELSE CHOOSE text \in {SubSeq(template, 1, i - 1) \o word
                                \o SubSeq(template, i + Len(hole), Len(template)) :
                              i \in {j \in 1..(Len(template) - Len(hole) + 1) :
                                       SubSeq(template, j, j + Len(hole) - 1) = hole}} : TRUE

\* C19: each generator is a function of its arguments: a call repeated with
\* the same selection id and inputs returns the same string, whatever the
\* process it runs in; and the template of the result is the one its bank
\* holds at index sha256(id + salt) mod the length of the bank (the rationale
\* is that template, followed by a space and the picked pace modifier when
\* sha256(id + "pace_mod") is even).
C19_GeneratorsAreFunctions ==
    /\ (last.op \in TextOps /\ last.previous # <<>>) => last.result = last.previous[1]
    /\ last.op = "generate_rationale" =>
          LET rec_id == last.args[1]
              state == Get(last.args[2], "state", "escape")
              pace == Get(last.args[2], "pace", "slow")
              bank == IF state \in DOMAIN RATIONALE_TEMPLATES
                      THEN RATIONALE_TEMPLATES[state] ELSE RATIONALE_TEMPLATES["escape"]
              modifiers == IF pace \in DOMAIN PACE_MODIFIERS
                           THEN PACE_MODIFIERS[pace] ELSE PACE_MODIFIERS["slow"]
          IN  last.result =
                IF HashIndex[<<rec_id, "pace_mod", 2>>] = 0
                THEN Picked(bank, rec_id, "rationale") \o <<32>> \o Picked(modifiers, rec_id, "pace")
                ELSE Picked(bank, rec_id, "rationale")
    /\ last.op = "generate_when_to_watch" =>
          LET state == Get(last.args[2], "state", "escape")
              pace == Get(last.args[2], "pace", "slow")
              banks == IF state \in DOMAIN WHEN_TO_WATCH
                       THEN WHEN_TO_WATCH[state] ELSE WHEN_TO_WATCH["escape"]
              bank == IF pace \in DOMAIN banks THEN banks[pace] ELSE banks["slow"]
          IN  last.result = Picked(bank, last.args[1], "when")
    /\ last.op = "generate_delta_explainer" =>
          LET delta_type == last.args[1]
              bank == IF delta_type \in DOMAIN DELTA_EXPLAINERS
                      THEN DELTA_EXPLAINERS[delta_type] ELSE DELTA_EXPLAINERS["tone_shifted"]
          IN  last.result = Filled(Picked(bank, last.args[3], "delta"), delta_type, last.args[2])

\* A rationale with a pace modifier was generated a second time for the same
\* id and answers and came out the same.
C19_Witness ==
    /\ last.op = "generate_rationale" /\ last.previous # <<>>
    /\ last.args[1] = "3" /\ last.args[2] = Fast
    /\ last.result = RATIONALE_TEMPLATES["heavy"][2] \o <<32>> \o PACE_MODIFIERS["fast"][2]

\* C20: the string generate_rationale returns is at most 320 characters long,
\* contains no spoiler keyword in any letter case and is accepted by
\* validate_rationale with (True, None), for every selection id and answers,
\* also with a state or pace outside the known ones; the string
\* generate_when_to_watch returns contains no spoiler keyword in any letter
\* case either.
C20_TextsHaveNoSpoilers ==
    /\ last.op = "generate_rationale" =>
          /\ Len(last.result) <= 320
          /\ \A i \in DOMAIN SpoilerList : ~Contains(LowerText(last.result), SpoilerList[i])
          /\ last.valid = <<TRUE, None>>
    /\ last.op = "generate_when_to_watch" =>
          \A i \in DOMAIN SpoilerList : ~Contains(LowerText(last.result), SpoilerList[i])

\* A rationale for a state and a pace outside the known ones, template and
\* modifier in one string, was generated and validated.
C20_Witness ==
    /\ last.op = "generate_rationale"
    /\ last.args[2] = [state |-> "bored", pace |-> "medium", format |-> "movie"]
    /\ Len(last.result) > 90
    /\ last.valid = <<TRUE, None>>

(***************************************************************************)
(* SessionStore under threads. The class holds no lock, so a method is the *)
(* sequence of its dictionary operations and another thread may run        *)
(* between any two of them. One step of a thread is one operation on       *)
(* self._sessions: creating the items() iterator, one next() of it, one    *)
(* del, one get, one pop, one assignment. The threads work on the store    *)
(* rec_sessions; each makes one call. A thread's locals are in sess, its   *)
(* position in pc; an exception the call raises is kept in sess.error.     *)
(***************************************************************************)
Threads == {"t1", "t2"}

StoreOps == {"get", "get_or_create", "clear", "reset_flow"}

MaxSessions == 3

Idle == [op |-> None, user_id |-> None, time |-> 0, used |-> 0, todo |-> {}, expired |-> {},
         session |-> <<>>, error |-> None]

InitStore ==
    /\ now = 0
    /\ recs = << [rec_id |-> 1, user_id |-> "u2", item_id |-> "m2",
                  context |-> Merge(Plain, [mode |-> "normal"]), created_at |-> 0] >>
    /\ favorites = << [user_id |-> "u2", item_id |-> "m1"] >>
    /\ dismissed = { [user_id |-> "u2", item_id |-> "s1"] }
    /\ user_weights = << [user_id |-> "u2", key |-> context_key(Plain), weight |-> 1] >>
    /\ applied = SetToBag({ [user_id |-> "u2", key |-> context_key(Plain), delta |-> 1] })
    /\ nfeedback = 0
    /\ nrepo = 0
    /\ feedback = << [rec_id |-> 1, user_id |-> "u2", action |-> "another", reason |-> None] >>
    /\ users = [u \in {"u2"} |-> NoReset]
    /\ last = [op |-> "init"]
    /\ pc = [t \in Threads |-> "idle"]
    /\ sess = [t \in Threads |-> Idle]
    /\ flow_sessions = InitFlowSessions
    /\ rec_sessions = InitRecSessions

StoreFrame ==
    UNCHANGED <<recs, favorites, dismissed, user_weights, applied, nfeedback, nrepo, feedback,
                users, last, flow_sessions>>

\* A thread enters get, get_or_create, clear or reset_flow.
ThreadCall(t, op, user_id) ==
    /\ pc[t] = "idle"
    /\ pc' = [pc EXCEPT ![t] = IF op = "clear" THEN "pop" ELSE "cleanup"]
    /\ sess' = [sess EXCEPT ![t] = [Idle EXCEPT !.op = op, !.user_id = user_id]]
    /\ UNCHANGED <<now, rec_sessions>>
    /\ StoreFrame

\* _cleanup_expired: now = time.time(); the iterator of self._sessions.items()
\* is created and remembers the size of the dictionary.
CleanupBegin(t) ==
    /\ pc[t] = "cleanup"
    /\ pc' = [pc EXCEPT ![t] = "scan"]
    /\ sess' = [sess EXCEPT ![t].time = now,
                            ![t].used = Cardinality(DOMAIN rec_sessions._sessions),
                            ![t].todo = DOMAIN rec_sessions._sessions,
                            ![t].expired = {}]
    /\ UNCHANGED <<now, rec_sessions>>
    /\ StoreFrame

\* One next() of the iterator: RuntimeError (dictionary changed size during
\* iteration) when the size is no longer the remembered one; otherwise the
\* next item is tested, or the list is complete.
ScanNext(t) ==
    /\ pc[t] = "scan"
    /\ IF Cardinality(DOMAIN rec_sessions._sessions) # sess[t].used
       THEN /\ pc' = [pc EXCEPT ![t] = "failed"]
            /\ sess' = [sess EXCEPT ![t].error = "RuntimeError"]
       ELSE IF sess[t].todo \cap DOMAIN rec_sessions._sessions = {}
       THEN /\ pc' = [pc EXCEPT ![t] = "delete"]
            /\ sess' = [sess EXCEPT ![t].todo = {}]
       ELSE \E uid \in sess[t].todo \cap DOMAIN rec_sessions._sessions :
            /\ pc' = pc
            /\ sess' = [sess EXCEPT
                    ![t].todo = @ \ {uid},
                    ![t].expired =
                        IF SessionExpired(rec_sessions, rec_sessions._sessions[uid], sess[t].time)
                        THEN @ \cup {uid} ELSE @]
    /\ UNCHANGED <<now, rec_sessions>>
    /\ StoreFrame

\* What get returns to its caller: the caller's next position.
AfterGet(op, session) ==
    IF op = "get_or_create" /\ session = <<>> THEN "create"
    ELSE IF op = "reset_flow" /\ session # <<>> THEN "reset"
    ELSE "done"

\* for uid in expired: del self._sessions[uid], a KeyError when the key is
\* no longer there.
DeleteExpired(t) ==
    /\ pc[t] = "delete"
    /\ IF sess[t].expired = {}
       THEN /\ pc' = [pc EXCEPT ![t] = "lookup"]
            /\ UNCHANGED <<sess, rec_sessions>>
       ELSE \E uid \in sess[t].expired :
            IF uid \in DOMAIN rec_sessions._sessions
            THEN /\ rec_sessions' = [rec_sessions EXCEPT !._sessions = Without(@, uid)]
                 /\ sess' = [sess EXCEPT ![t].expired = @ \ {uid}]
                 /\ pc' = pc
            ELSE /\ pc' = [pc EXCEPT ![t] = "failed"]
                 /\ sess' = [sess EXCEPT ![t].error = "KeyError"]
                 /\ UNCHANGED rec_sessions
    /\ UNCHANGED now
    /\ StoreFrame

\* session = self._sessions.get(user_id) and the test of its age.
Lookup(t) ==
    /\ pc[t] = "lookup"
    /\ LET user_id == sess[t].user_id
           session == IF user_id \in DOMAIN rec_sessions._sessions
                      THEN << rec_sessions._sessions[user_id] >> ELSE <<>>
       IN  IF session # <<>> /\ SessionExpired(rec_sessions, session[1], now)
           THEN /\ pc' = [pc EXCEPT ![t] = "del"]
                /\ sess' = [sess EXCEPT ![t].session = session]
           ELSE /\ pc' = [pc EXCEPT ![t] = AfterGet(sess[t].op, session)]
                /\ sess' = [sess EXCEPT ![t].session = session]
    /\ UNCHANGED <<now, rec_sessions>>
    /\ StoreFrame

\* get: del self._sessions[user_id]; return None
DeleteStale(t) ==
    /\ pc[t] = "del"
    /\ IF sess[t].user_id \in DOMAIN rec_sessions._sessions
       THEN /\ rec_sessions' = [rec_sessions EXCEPT !._sessions = Without(@, sess[t].user_id)]
            /\ pc' = [pc EXCEPT ![t] = AfterGet(sess[t].op, <<>>)]
            /\ sess' = [sess EXCEPT ![t].session = <<>>]
       ELSE /\ pc' = [pc EXCEPT ![t] = "failed"]
            /\ sess' = [sess EXCEPT ![t].error = "KeyError"]
            /\ UNCHANGED rec_sessions
    /\ UNCHANGED now
    /\ StoreFrame

\* get_or_create: session = UserSession(user_id=user_id);
\* self._sessions[user_id] = session
CreateSession(t) ==
    /\ pc[t] = "create"
    /\ rec_sessions.allocated < MaxSessions
    /\ LET session == UserSession(sess[t].user_id, now, rec_sessions.allocated + 1)
       IN  /\ rec_sessions' = [rec_sessions EXCEPT !._sessions = With(@, session), !.allocated = @ + 1]
           /\ sess' = [sess EXCEPT ![t].session = <<session>>]
    /\ pc' = [pc EXCEPT ![t] = "done"]
    /\ UNCHANGED now
    /\ StoreFrame

\* reset_flow: the four assignments to the session object; they show in the
\* store when the object is still the stored one.
ResetSession(t) ==
    /\ pc[t] = "reset"
    /\ LET session == sess[t].session[1]
           user_id == sess[t].user_id
           fresh == [session EXCEPT !.answers = EmptyDict, !.hint = <<>>,
                                    !.awaiting_hint = FALSE, !.created_at = now]
       IN  /\ sess' = [sess EXCEPT ![t].session = <<fresh>>]
           /\ rec_sessions' =
                IF user_id \in DOMAIN rec_sessions._sessions
                    /\ rec_sessions._sessions[user_id].oid = session.oid
                THEN [rec_sessions EXCEPT !._sessions = With(@, fresh)]
                ELSE rec_sessions
    /\ pc' = [pc EXCEPT ![t] = "done"]
    /\ UNCHANGED now
    /\ StoreFrame

\* clear: self._sessions.pop(user_id, None)
PopSession(t) ==
    /\ pc[t] = "pop"
    /\ rec_sessions' = clear(rec_sessions, sess[t].user_id)
    /\ pc' = [pc EXCEPT ![t] = "done"]
    /\ UNCHANGED <<now, sess>>
    /\ StoreFrame

\* A day passes while the threads run.
StoreTick ==
    /\ now < MaxDay
    /\ now' = now + 1
    /\ UNCHANGED <<pc, sess, rec_sessions>>
    /\ StoreFrame

NextStore ==
    \/ \E t \in Threads, op \in StoreOps, user_id \in Users : ThreadCall(t, op, user_id)
    \/ \E t \in Threads : CleanupBegin(t)
    \/ \E t \in Threads : ScanNext(t)
    \/ \E t \in Threads : DeleteExpired(t)
    \/ \E t \in Threads : Lookup(t)
    \/ \E t \in Threads : DeleteStale(t)
    \/ \E t \in Threads : CreateSession(t)
    \/ \E t \in Threads : ResetSession(t)
    \/ \E t \in Threads : PopSession(t)
    \/ StoreTick

SpecStore == InitStore /\ [][NextStore]_vars

\* A call that returned.
Returned(t, op, user_id) == pc[t] = "done" /\ sess[t].op = op /\ sess[t].user_id = user_id

\* C21: SessionStore is thread-safe: when get, get_or_create, clear and
\* reset_flow run concurrently on one store no call fails (no KeyError from
\* deleting an already deleted session, no RuntimeError from the map changing
\* size during the expiry scan), and two concurrent get_or_create calls for
\* the same user end with one stored session that both callers hold.
C21_SessionStoreThreadSafe ==
    /\ \A t \in Threads : sess[t].error = None
    /\ \A user_id \in Users :
        (\A t \in Threads : Returned(t, "get_or_create", user_id))
            => /\ user_id \in DOMAIN rec_sessions._sessions
               /\ \A t \in Threads : sess[t].session[1].oid = rec_sessions._sessions[user_id].oid

Rescored == last.op = "score_and_select" /\ last.before # <<>>

\* C23: the novelty bonus is a function of the item and of the seed derived
\* from (user, day, mode): for a fixed candidate list the score ordering is the
\* same for every request of one (user, day, mode) triple.
C23_OrderingFixedBySeed ==
    (Rescored /\ last.before[1].today = last.args[2]) => last.before[1].order = last.order

\* What the code does instead: within one process the ordering is the same on
\* every day, for the novelty bonus never reads the seeded generator.
OrderingSameOnEveryDay ==
    (Rescored /\ last.before[1].hash_salt = last.hash_salt) => last.before[1].order = last.order

(***************************************************************************)
(* The hint bonus of one candidate in get_recommendation: the hint is      *)
(* parsed and translated as get_recommendation does, and the candidate is  *)
(* scored as _score_candidates does.                                       *)
(***************************************************************************)
HintKeywords == {"night", "friends", "smith", "comedy", "thriller"}

HintBonus(answers0, en_keywords, item_id) ==
    LET hint_result == TranslatedHint(answers0, en_keywords)
        tags == parse_tags(Catalog[item_id].tags_json)
    IN  /\ last' = [op |-> "hint_bonus", answers |-> answers0, en_keywords |-> en_keywords,
                    item_id |-> item_id, hint_result |-> hint_result,
                    h_bonus |-> hint_match_score(item_id, tags, hint_result)]
        /\ UNCHANGED <<now, recs, favorites, dismissed, user_weights, applied, nfeedback, nrepo,
                       feedback, users, pc, sess, flow_sessions, rec_sessions>>

NextHint ==
    \E answers \in {Plain, Hinted, HintedSeries}, item_id \in ItemIds :
        \E en \in (IF "hint" \in DOMAIN answers THEN SUBSET HintKeywords ELSE {{}}) :
            HintBonus(answers, en, item_id)

SpecHint == Init /\ [][NextHint]_vars

\* The title and tone part of the bonus of the last candidate: 3.0 for every
\* word of the hint or of its translation found in the title, 1.5 for every
\* tone of the hint among the item's tones.
TitleAndTone ==
    LET item == Catalog[last.item_id]
        tags == parse_tags(item.tags_json)
        parsed == parse_hint(Get(last.answers, "hint", <<>>))
    IN  300 * Cardinality((parsed.search_words \cup last.en_keywords) \cap item.title)
      + (IF tags = <<>> THEN 0
         ELSE 150 * Cardinality(parsed.tone_keywords \cap Get(tags[1], "tone", {})))

\* C24: in get_recommendation, when the translation of the hint yields
\* keywords, each keyword found in the candidate's overview, genres or credits
\* adds 1.0, 2.0, 3.0 respectively on top of the title and tone matches; when
\* it yields nothing only title and tone matches count; the bonus is never
\* above 8.0.
C24_TranslatedKeywordsScoreTexts ==
    last.op = "hint_bonus" =>
        LET item == Catalog[last.item_id]
            texts == 100 * Cardinality(last.en_keywords \cap item.overview)
                   + 200 * Cardinality(last.en_keywords \cap item.genres_json)
                   + 300 * Cardinality(last.en_keywords \cap item.credits_json)
        IN  /\ last.en_keywords # {} => last.h_bonus = Min(TitleAndTone + texts, 800)
            /\ last.en_keywords = {} => last.h_bonus = Min(TitleAndTone, 800)
            /\ last.h_bonus <= 800

\* What the code does: the translated keywords are appended to search_words,
\* llm_keywords stays empty, and the bonus is the title and tone part alone.
TranslatedKeywordsScoreTitleOnly ==
    last.op = "hint_bonus" =>
        /\ last.hint_result.llm_keywords = {}
        /\ last.h_bonus = Min(TitleAndTone, 800)

\* The weights the last scoring is compared with: both sides of zero, inside
\* and outside the linear range of the bonus.
OtherWeights == {-12, -1, 0, 2, 15}

\* The last scoring and selection, run again with the weight user_weight and
\* everything else as it was.
WithWeight(user_weight) ==
    LET scored == _score_candidates(last.args[4], last.args[5], user_weight, parse_hint(<<>>),
                                    last.hash_salt)
        rng == _seeded_random(_deterministic_seed(last.args[1], last.args[2], last.args[3]))
    IN  [order |-> [i \in DOMAIN scored |-> scored[i].item_id],
         scores |-> [i \in DOMAIN scored |-> scored[i].score],
         item_id |-> _epsilon_greedy_select(scored, last.args[7], rng).item_id]

\* C25: within one call the weight bonus is the same for every candidate, so
\* for a fixed candidate list, answers, seed and epsilon the ranking and the
\* selected item are the same for every value of the user's weight; the weight
\* moves every recorded score by the same amount.
C25_WeightNeverChangesSelection ==
    last.op = "score_and_select" =>
        \A user_weight \in OtherWeights :
            LET other == WithWeight(user_weight)
                shift == calculate_weight_bonus(user_weight) - calculate_weight_bonus(last.args[6])
            IN  /\ other.order = last.order
                /\ other.item_id = last.item_id
                /\ other.scores = [i \in DOMAIN last.scores |-> last.scores[i] + shift]

\* Two candidates whose scores are 0.14 apart were scored for a user with
\* accumulated feedback: the scores are not those of a user without, the
\* selected item is.
C25_Witness ==
    /\ last.op = "score_and_select"
    /\ last.args[6] = 2
    /\ Len(last.order) = 2
    /\ last.scores # WithWeight(0).scores
    /\ last.scores[1] - last.scores[2] = 14
    /\ last.item_id = WithWeight(0).item_id

(***************************************************************************)
(* The bot's handlers (app/bot/handlers_flow.py, handlers_feedback.py).    *)
(* A handler is one action: the event loop runs it for one update, and     *)
(* the slice delivers the updates one at a time. A button carries the      *)
(* short id of the Selection Record it was sent with (short_id, None for   *)
(* a button without one).                                                  *)
(***************************************************************************)
MaxUpdates == 4
MaxChain == 3

\* The id of the user's most recent Selection Record, 0 when there is none.
LatestRec(user_id) ==
    LET mine == {i \in DOMAIN recs : recs[i].user_id = user_id}
    IN  IF mine = {} THEN 0 ELSE CHOOSE i \in mine : \A j \in mine : j <= i

\* Variant: a button whose short id does not match the session's last_rec_id
\* resolves to the recommendation the button was sent with.
_get_rec_id_from_callback_by_button(short_id, user_id) ==
    LET got == get(rec_sessions, user_id, now)
        rec_session == got[2]
    IN  IF rec_session # <<>> /\ rec_session[1].last_rec_id # <<>>
        THEN IF short_id # <<>> /\ rec_session[1].last_rec_id = short_id
             THEN << got[1], rec_session[1].last_rec_id >>
             ELSE << got[1], IF short_id # <<>> THEN short_id
                             ELSE rec_session[1].last_rec_id >>
        ELSE << got[1], <<>> >>

\* _get_rec_id_from_callback: <<rec_sessions afterwards, the rec_id or None>>
_get_rec_id_from_callback(short_id, user_id) ==
    LET got == get(rec_sessions, user_id, now)
        rec_session == got[2]
    IN  IF rec_session # <<>> /\ rec_session[1].last_rec_id # <<>>
        THEN IF short_id # <<>> /\ rec_session[1].last_rec_id = short_id
             THEN << got[1], rec_session[1].last_rec_id >>
             ELSE << got[1], rec_session[1].last_rec_id >>
        ELSE << got[1], <<>> >>

\* Variant: a call that carries a reason makes the reason's correction only,
\* the base reward being left to the call without reason.
update_weights_reason_only(rec_id, action, reason) ==
    IF get_rec(rec_id) = {} THEN <<>>
    ELSE LET calls == WeightCalls(CHOOSE r \in get_rec(rec_id) : TRUE, action, reason)
         IN  IF reason # None /\ calls # <<>> THEN Tail(calls) ELSE calls

\* update_weights(user_id, rec_id, action, reason): the add_weight_delta calls
\* it makes, as <<key, delta>>; reason is None when left out.
update_weights(rec_id, action, reason) ==
    IF get_rec(rec_id) = {} THEN <<>>
    ELSE WeightCalls(CHOOSE r \in get_rec(rec_id) : TRUE, action, reason)

\* What every handler records: the button pressed, the rec_id it resolved to,
\* how it ended, the weight changes it made, and the state it started from.
BotLast(op, user_id, short_id, rec_id, outcome, calls) ==
    [op |-> op, user_id |-> user_id, short_id |-> short_id, rec_id |-> rec_id,
     outcome |-> outcome, changes |-> WeightChanges(calls, EmptyDict),
     before |-> user_weights, latest |-> LatestRec(user_id),
     live |-> get(rec_sessions, user_id, now)[2] # <<>>,
     held |-> IF get(rec_sessions, user_id, now)[2] # <<>>
              THEN get(rec_sessions, user_id, now)[2][1].last_rec_id ELSE <<>>]

BotFrame == UNCHANGED <<now, dismissed, nrepo, pc, sess>>

\* handle_format_selection with the state and pace carried by the button: the
\* three answers are stored and the hint question is asked.
HandleFormatSelection(user_id, state, pace, format_choice) ==
    \E made \in {get_or_create(flow_sessions, user_id, now)} :
    LET session == [made[2] EXCEPT !.answers = [state |-> state, pace |-> pace,
                                                format |-> format_choice],
                                   !.awaiting_hint = TRUE]
    IN  /\ flow_sessions' = [made[1] EXCEPT !._sessions = With(@, session)]
        /\ last' = [op |-> "handle_format_selection", user_id |-> user_id]
        /\ UNCHANGED <<recs, favorites, user_weights, applied, nfeedback, feedback, users,
                       rec_sessions>>
        /\ BotFrame

\* The answers a handler takes from the flow session: None when the session is
\* missing or has no answers.
FlowAnswers(flow_session) ==
    IF flow_session = <<>> \/ flow_session[1].answers = EmptyDict THEN <<>>
    ELSE << IF flow_session[1].hint # <<>>
            THEN Merge(flow_session[1].answers, [hint |-> flow_session[1].hint[1]])
            ELSE flow_session[1].answers >>

\* handle_skip_hint and _get_and_send_recommendation in mode "normal".
HandleSkipHint(user_id, rng, hash_salt) ==
    \E got \in {get(flow_sessions, user_id, now)} :
    \E answers \in {FlowAnswers(got[2])} :
    \E r \in {IF answers = <<>> THEN [found |-> FALSE]
               ELSE Recommend(user_id, answers[1], "normal", {}, EmptyDict, {}, rng, hash_salt)} :
    LET session == [got[2][1] EXCEPT !.awaiting_hint = FALSE, !.hint = <<>>]
        rec_id == Len(recs) + 1
    IN  IF answers = <<>>
        THEN /\ flow_sessions' = got[1]
             /\ last' = [op |-> "handle_skip_hint", user_id |-> user_id, outcome |-> "restart"]
             /\ UNCHANGED <<recs, favorites, user_weights, applied, nfeedback, feedback, users,
                            rec_sessions>>
             /\ BotFrame
        ELSE /\ r.found => NewRecs < MaxChain
             /\ flow_sessions' = [got[1] EXCEPT !._sessions = With(@, session)]
             /\ recs' = IF r.found
                        THEN Append(recs, [rec_id |-> rec_id, user_id |-> user_id,
                                           item_id |-> r.item_id, context |-> r.context,
                                           created_at |-> now])
                        ELSE recs
             /\ rec_sessions' = IF r.found
                                THEN set_last_rec(rec_sessions, user_id, rec_id, r.item_id, now)
                                ELSE rec_sessions
             /\ users' = ensure_user(user_id)
             /\ last' = [op |-> "handle_skip_hint", user_id |-> user_id,
                         outcome |-> IF r.found THEN "shown" ELSE "none",
                         answers |-> answers[1], found |-> r.found, item_id |-> r.item_id,
                         new_rec_id |-> IF r.found THEN rec_id ELSE 0]
             /\ UNCHANGED <<favorites, user_weights, applied, nfeedback, feedback>>
             /\ BotFrame

\* handle_hit and handle_miss: feedback on the resolved recommendation, or the
\* "lost context" message when there is none.
FeedbackOnly(op, action, user_id, short_id) ==
    \E cb \in {_get_rec_id_from_callback(short_id, user_id)} :
    \E calls \in {IF cb[2] = <<>> THEN <<>> ELSE update_weights(cb[2][1], action, None)} :
    LET rec_id == cb[2]
    IN  /\ rec_id # <<>> => nfeedback < MaxUpdates
        /\ rec_sessions' = cb[1]
        /\ feedback' = IF rec_id = <<>> THEN feedback
                       ELSE Append(feedback, [rec_id |-> rec_id[1], user_id |-> user_id,
                                              action |-> action, reason |-> None])
        /\ user_weights' = ApplyCalls(user_weights, user_id, calls)
        /\ applied' = LogCalls(applied, user_id, calls)
        /\ nfeedback' = IF rec_id = <<>> THEN nfeedback ELSE nfeedback + 1
        /\ last' = BotLast(op, user_id, short_id, rec_id,
                           IF rec_id = <<>> THEN "no_rec" ELSE "ack", calls)
        /\ UNCHANGED <<recs, favorites, users, flow_sessions>>
        /\ BotFrame

HandleHit(user_id, short_id) == FeedbackOnly("handle_hit", "hit", user_id, short_id)

HandleMiss(user_id, short_id) == FeedbackOnly("handle_miss", "miss", user_id, short_id)

\* handle_favorite (add_to_favorites TRUE) and handle_share (FALSE): they need
\* the item of the session, and give feedback when there is a rec_id.
ItemFeedback(op, action, add_to_favorites, user_id, short_id) ==
    \E cb \in {_get_rec_id_from_callback(short_id, user_id)} :
    \E rec_session \in {get(cb[1], user_id, now)[2]} :
    \E no_item \in {rec_session = <<>> \/ rec_session[1].last_item_id = <<>>} :
    \E calls \in {IF no_item \/ cb[2] = <<>> THEN <<>>
                   ELSE update_weights(cb[2][1], action, None)} :
    LET rec_id == cb[2]
        item_id == rec_session[1].last_item_id[1]
        given == ~no_item /\ rec_id # <<>>
    IN  /\ given => nfeedback < MaxUpdates
        /\ rec_sessions' = cb[1]
        /\ favorites' = IF no_item \/ ~add_to_favorites \/ is_favorited(user_id, item_id)
                        THEN favorites
                        ELSE Append(favorites, [user_id |-> user_id, item_id |-> item_id])
        /\ feedback' = IF given
                       THEN Append(feedback, [rec_id |-> rec_id[1], user_id |-> user_id,
                                              action |-> action, reason |-> None])
                       ELSE feedback
        /\ user_weights' = ApplyCalls(user_weights, user_id, calls)
        /\ applied' = LogCalls(applied, user_id, calls)
        /\ nfeedback' = IF given THEN nfeedback + 1 ELSE nfeedback
        /\ last' = BotLast(op, user_id, short_id, rec_id,
                           IF no_item THEN "no_rec" ELSE "ack", calls)
        /\ UNCHANGED <<recs, users, flow_sessions>>
        /\ BotFrame

HandleFavorite(user_id, short_id) ==
    ItemFeedback("handle_favorite", "favorite", TRUE, user_id, short_id)

HandleShare(user_id, short_id) ==
    ItemFeedback("handle_share", "share", FALSE, user_id, short_id)

\* handle_another (mode "another", the stored context of the resolved
\* recommendation as last_context) and the part of handle_miss_reason after
\* the reason was accepted (mode "miss_recover", no last_context): feedback on
\* the resolved recommendation, then a new recommendation that excludes the
\* item of the session.
FeedbackAndNext(op, action, reason, mode, user_id, short_id, rng, hash_salt) ==
    \E cb \in {_get_rec_id_from_callback(short_id, user_id)} :
    \E got \in {get(flow_sessions, user_id, now)} :
    \E answers \in {FlowAnswers(got[2])} :
    \E rec_session \in {get(cb[1], user_id, now)[2]} :
    \E exclude_ids \in {IF rec_session # <<>> /\ rec_session[1].last_item_id # <<>>
                         THEN {rec_session[1].last_item_id[1]} ELSE {}} :
    \E calls \in {IF cb[2] = <<>> \/ answers = <<>> THEN <<>>
                   ELSE update_weights(cb[2][1], action, reason)} :
    \E weights \in {ApplyCalls(user_weights, user_id, calls)} :
    \E last_rec \in {IF cb[2] = <<>> THEN {} ELSE get_rec(cb[2][1])} :
    \E last_context \in {IF mode = "another" /\ last_rec # {}
                          THEN (CHOOSE x \in last_rec : TRUE).context ELSE EmptyDict} :
    \E r \in {IF answers = <<>> THEN [found |-> FALSE]
               ELSE RecommendOn(weights, user_id, answers[1], mode, exclude_ids, last_context, {},
                                rng, hash_salt)} :
    LET rec_id == cb[2]
        new_rec_id == Len(recs) + 1
    IN  IF answers = <<>>
        THEN /\ rec_sessions' = cb[1]
             /\ flow_sessions' = got[1]
             /\ last' = BotLast(op, user_id, short_id, rec_id, "restart", <<>>)
             /\ UNCHANGED <<recs, favorites, user_weights, applied, nfeedback, feedback, users>>
             /\ BotFrame
        ELSE /\ rec_id # <<>> => nfeedback < MaxUpdates
             /\ r.found => NewRecs < MaxChain
             /\ flow_sessions' = got[1]
             /\ feedback' = IF rec_id # <<>> /\ mode = "another"
                            THEN Append(feedback, [rec_id |-> rec_id[1], user_id |-> user_id,
                                                   action |-> action, reason |-> None])
                            ELSE feedback
             /\ user_weights' = weights
             /\ applied' = LogCalls(applied, user_id, calls)
             /\ nfeedback' = IF rec_id = <<>> THEN nfeedback ELSE nfeedback + 1
             /\ recs' = IF r.found
                        THEN Append(recs, [rec_id |-> new_rec_id, user_id |-> user_id,
                                           item_id |-> r.item_id, context |-> r.context,
                                           created_at |-> now])
                        ELSE recs
             /\ rec_sessions' = IF r.found
                                THEN set_last_rec(cb[1], user_id, new_rec_id, r.item_id, now)
                                ELSE cb[1]
             /\ users' = ensure_user(user_id)
             /\ last' = Merge(BotLast(op, user_id, short_id, rec_id,
                                      IF r.found THEN "shown" ELSE "none", calls),
                              [reason |-> reason, answers |-> answers[1],
                               exclude_item_ids |-> exclude_ids, last_context |-> last_context,
                               found |-> r.found, item_id |-> r.item_id,
                               delta_info |-> r.delta_info,
                               effective_answers |-> r.effective_answers,
                               new_rec_id |-> IF r.found THEN new_rec_id ELSE 0])
             /\ UNCHANGED favorites
             /\ BotFrame

HandleAnother(user_id, short_id, rng, hash_salt) ==
    FeedbackAndNext("handle_another", "another", None, "another", user_id, short_id, rng, hash_salt)

\* handle_miss_reason: a reason the keyboard does not offer is dropped.
HandleMissReason(user_id, reason, short_id, rng, hash_salt) ==
    IF reason \notin {"tooslow", "tooheavy", "notvibe"}
    THEN /\ last' = [op |-> "handle_miss_reason", user_id |-> user_id, outcome |-> "invalid",
                     before |-> user_weights]
         /\ UNCHANGED <<recs, favorites, user_weights, applied, nfeedback, feedback, users,
                        flow_sessions, rec_sessions>>
         /\ BotFrame
    ELSE FeedbackAndNext("handle_miss_reason", "miss", reason, "miss_recover", user_id, short_id,
                         rng, hash_salt)

\* The buttons a user can press: the one of the first Selection Record, the
\* one of the latest, and one without an id.
ShortIds == {<<>>, <<1>>, <<Len(recs)>>}

BotReasons == {"tooslow", "tooheavy", "notvibe", "other"}

\* The feedback buttons, pressed by u2, who holds a recommendation, and by u1,
\* who holds none, until MaxCallbacks weight updates were made; the sessions
\* expire with the first day. The seeded draw exploits.
MaxCallbacks == 2

BotTick == now < 1 /\ Tick

NextBot ==
    \/ \E user_id \in Users, short_id \in ShortIds :
          nfeedback < MaxCallbacks /\ HandleHit(user_id, short_id)
    \/ \E user_id \in Users, short_id \in ShortIds :
          nfeedback < MaxCallbacks /\ HandleMiss(user_id, short_id)
    \/ \E user_id \in Users, short_id \in ShortIds :
          nfeedback < MaxCallbacks /\ HandleFavorite(user_id, short_id)
    \/ \E user_id \in Users, short_id \in ShortIds :
          nfeedback < MaxCallbacks /\ HandleShare(user_id, short_id)
    \/ \E user_id \in Users, short_id \in ShortIds :
          nfeedback < MaxCallbacks /\ HandleAnother(user_id, short_id, AnyRng(60, 0), 0)
    \/ \E user_id \in Users, reason \in BotReasons, short_id \in ShortIds :
          nfeedback < MaxCallbacks /\ HandleMissReason(user_id, reason, short_id, AnyRng(60, 0), 0)
    \/ BotTick

SpecBot == Init /\ [][NextBot]_vars

\* A chain of "another" requests: u2 answers the questions, skips the hint,
\* marks favorites and asks for another, on one day.
NextChain ==
    \/ HandleFormatSelection("u2", "heavy", "fast", "movie")
    \/ \E d \in {<<60, 0, 0>>, <<10, 1, 1>>} : HandleSkipHint("u2", AnyRng(d[1], d[2]), d[3])
    \/ HandleFavorite("u2", <<Len(recs)>>)
    \/ \E d \in {<<60, 0, 0>>, <<10, 1, 1>>} :
          HandleAnother("u2", <<Len(recs)>>, AnyRng(d[1], d[2]), d[3])

SpecChain == Init /\ [][NextChain]_vars

\* Two "another" requests in a row, the second with the caller's answers
\* unchanged and the stored context of the first's selection.
ChainStep ==
    /\ last.op = "handle_another" /\ last.outcome = "shown"
    /\ last'.op = "handle_another" /\ last'.outcome = "shown"
    /\ last'.user_id = last.user_id
    /\ last'.answers = last.answers
    /\ last'.last_context = recs[last.new_rec_id].context

FeedbackOps == {"handle_hit", "handle_another", "handle_miss", "handle_miss_reason",
                "handle_favorite", "handle_share"}

\* The action a feedback handler passes to add_feedback and update_weights.
ActionOf(op) ==
    CASE op = "handle_hit" -> "hit"
      [] op = "handle_another" -> "another"
      [] op = "handle_miss" -> "miss"
      [] op = "handle_miss_reason" -> "miss"
      [] op = "handle_favorite" -> "favorite"
      [] op = "handle_share" -> "share"

\* The last step was a feedback callback that got as far as resolving its
\* recommendation.
Resolved == last.op \in FeedbackOps /\ last.outcome # "invalid"

\* The weight table after update_weights for Selection Record rec_id, made on
\* the table the last callback started from.
UpdatedFor(rec_id) ==
    ApplyCalls(last.before, last.user_id,
               WeightCalls(recs[rec_id], ActionOf(last.op), Get(last, "reason", None)))

\* C27: every feedback callback (hit, another, miss, miss reason, favorite,
\* share) resolves to the last_rec_id held in the user's recommendation
\* session, which is the user's most recent Selection Record, also when the
\* button carries the id of an earlier one; the weights it changes are those
\* of update_weights for that record; without a live recommendation session
\* nothing is resolved and no weight is changed.
C27_FeedbackOnLatestRec ==
    Resolved =>
        /\ last.rec_id = last.held
        /\ last.rec_id # <<>> => last.rec_id = <<last.latest>>
        /\ last.rec_id # <<>> /\ last.outcome \in {"ack", "shown", "none"}
              => user_weights = UpdatedFor(last.rec_id[1])
        /\ ~last.live => last.rec_id = <<>> /\ user_weights = last.before

\* A button of the first Selection Record is pressed while the session holds a
\* later one: the weights of the later one's context are changed.
C27_Witness ==
    /\ Resolved /\ last.outcome = "ack"
    /\ last.short_id = <<1>> /\ last.rec_id # <<>> /\ last.rec_id # <<1>>
    /\ last.rec_id = <<last.latest>>
    /\ last.changes # EmptyDict
    /\ user_weights # last.before

(***************************************************************************)
(* Miss, then the miss reason, for one recommendation.                     *)
(***************************************************************************)
\* The context key update_weights computes for Selection Record rec_id.
ContextKeyOf(rec_id) ==
    context_key([state |-> Get(recs[rec_id].context, "state", "escape"),
                 pace |-> Get(recs[rec_id].context, "pace", "slow"),
                 format |-> Get(recs[rec_id].context, "format", "movie")])

\* The key the reason's secondary correction adds 1 to, None when it has none.
CorrectionKeyOf(rec_id, reason) ==
    LET context == recs[rec_id].context
        answers == [state |-> Get(context, "state", "escape"),
                    pace |-> Get(context, "pace", "slow"),
                    format |-> Get(context, "format", "movie")]
    IN  IF reason = "tooslow"
        THEN context_key([answers EXCEPT !.pace = _get_opposite_pace(answers.pace)])
        ELSE IF reason = "tooheavy" /\ _get_opposite_state(answers.state) # answers.state
        THEN context_key([answers EXCEPT !.state = _get_opposite_state(answers.state)])
        ELSE None

\* The weight table the bot starts with.
StartWeights == << [user_id |-> "u2", key |-> context_key(Plain), weight |-> 1] >>

\* handle_miss, then handle_miss_reason for the same recommendation.
MissThenReason ==
    /\ last.op = "handle_miss" /\ last.outcome = "ack"
    /\ last'.op = "handle_miss_reason" /\ last'.outcome \in {"shown", "none"}
    /\ last'.user_id = last.user_id
    /\ last'.rec_id = last.rec_id

\* The same feedback callback twice for the same recommendation.
SameTwice ==
    /\ last.op \in {"handle_hit", "handle_miss", "handle_favorite", "handle_share"}
    /\ last.outcome = "ack" /\ last.rec_id # <<>>
    /\ last'.op = last.op /\ last'.outcome = "ack"
    /\ last'.user_id = last.user_id
    /\ last'.rec_id = last.rec_id

\* C28: a Miss followed by a miss reason for the same recommendation applies
\* the base miss reward twice: the context key of the selection goes down by
\* 4 in total and the key of the reason's correction, when it has one, goes up
\* by 1; and a feedback callback repeated for the same recommendation adds
\* its reward again.
C28_MissRewardAppliedTwice ==
    [][/\ MissThenReason =>
            LET user_id == last.user_id
                key == ContextKeyOf(last.rec_id[1])
                alt_key == CorrectionKeyOf(last.rec_id[1], last'.reason)
            IN  /\ last.changes = [k \in {key} |-> -2]
                /\ last'.changes = IF alt_key = None THEN [k \in {key} |-> -2]
                                   ELSE [k \in {key, alt_key} |-> IF k = key THEN -2 ELSE 1]
                /\ WeightIn(user_weights', user_id, key) = WeightIn(last.before, user_id, key) - 4
                /\ alt_key # None =>
                      WeightIn(user_weights', user_id, alt_key)
                          = WeightIn(last.before, user_id, alt_key) + 1
                /\ (alt_key = None) = (last'.reason \notin {"tooslow", "tooheavy"})
       /\ SameTwice =>
            LET key == ContextKeyOf(last.rec_id[1])
            IN  WeightIn(user_weights', last.user_id, key)
                    = WeightIn(last.before, last.user_id, key) + 2 * REWARDS[ActionOf(last.op)]
      ]_vars

\* The miss reason "too slow" has just followed the Miss for the same
\* recommendation: its key stands 4 below, the opposite pace's key 1 above.
C28_Witness ==
    /\ last.op = "handle_miss_reason" /\ last.outcome \in {"shown", "none"}
    /\ last.reason = "tooslow"
    /\ last.rec_id # <<>>
    /\ Len(feedback) > 0
    /\ feedback[Len(feedback)].action = "miss"
    /\ feedback[Len(feedback)].rec_id = last.rec_id[1]
    /\ last.changes = [k \in {ContextKeyOf(last.rec_id[1]), CorrectionKeyOf(last.rec_id[1], "tooslow")}
                         |-> IF k = ContextKeyOf(last.rec_id[1]) THEN -2 ELSE 1]
    /\ WeightIn(user_weights, last.user_id, ContextKeyOf(last.rec_id[1]))
          = WeightIn(last.before, last.user_id, ContextKeyOf(last.rec_id[1])) - 2
    /\ nfeedback = 2
    /\ WeightIn(user_weights, last.user_id, ContextKeyOf(last.rec_id[1]))
          = WeightIn(StartWeights, last.user_id, ContextKeyOf(last.rec_id[1])) - 4

(***************************************************************************)
(* Two get_recommendation requests in flight at the same time. Each        *)
(* request is a coroutine of the bot's event loop: it gives way at every   *)
(* await, so that the other can run between the reading of the exclusion   *)
(* set and the writing of the Selection Record. The candidates and the     *)
(* weights do not change meanwhile, hence everything from the exclusion    *)
(* set to the selection is one step.                                       *)
(***************************************************************************)
Inflight == {"q1", "q2"}

\* The seeded draws a request can make: <<random, choice, hash salt>>.
RequestDraws == {<<60, 0, 0>>, <<10, 1, 1>>}

\* Variant: RecsRepo.create_rec keeps the record it finds for the user and the
\* item inside the anti-repeat window.
create_rec_once(table, user_id, item_id, context) ==
    IF \E i \in DOMAIN table : /\ table[i].user_id = user_id
                               /\ table[i].item_id = item_id
                               /\ now - table[i].created_at < recs_anti_repeat_days
    THEN table
    ELSE Append(table, [rec_id |-> Len(table) + 1, user_id |-> user_id, item_id |-> item_id,
                        context |-> context, created_at |-> now])

\* RecsRepo.create_rec: the table with the new row.
create_rec(table, user_id, item_id, context) ==
    Append(table, [rec_id |-> Len(table) + 1, user_id |-> user_id, item_id |-> item_id,
                   context |-> context, created_at |-> now])

InitInterleave ==
    /\ now = 0
    /\ recs = << [rec_id |-> 1, user_id |-> "u2", item_id |-> "m2",
                  context |-> Merge(Plain, [mode |-> "normal"]), created_at |-> 0] >>
    /\ favorites = << [user_id |-> "u2", item_id |-> "m1"] >>
    /\ dismissed = { [user_id |-> "u2", item_id |-> "s1"] }
    /\ user_weights = << [user_id |-> "u2", key |-> context_key(Plain), weight |-> 1] >>
    /\ applied = SetToBag({ [user_id |-> "u2", key |-> context_key(Plain), delta |-> 1] })
    /\ nfeedback = 0
    /\ nrepo = 0
    /\ feedback = << [rec_id |-> 1, user_id |-> "u2", action |-> "another", reason |-> None] >>
    /\ users = [u \in {"u2"} |-> NoReset]
    /\ last = [op |-> "init"]
    /\ pc = [q \in Inflight |-> "start"]
    /\ sess \in [Inflight -> [user_id : Users, answers : {Plain, Series}, draw : RequestDraws,
                              seen : {0}, found : {FALSE}, item_id : {None},
                              context : {EmptyDict}, excluded : {{}}, rec_id : {0}]]
    /\ flow_sessions = InitFlowSessions
    /\ rec_sessions = InitRecSessions

\* get_recommendation from its start to the selection: the exclusion set is
\* read from the Selection Records written so far (seen counts them).
RequestSelect(q) ==
    /\ pc[q] = "start"
    /\ \E r \in {Recommend(sess[q].user_id, sess[q].answers, "normal", {}, EmptyDict, {},
                           AnyRng(sess[q].draw[1], sess[q].draw[2]), sess[q].draw[3])} :
          /\ sess' = [sess EXCEPT ![q].seen = Len(recs), ![q].found = r.found,
                                  ![q].item_id = r.item_id, ![q].context = r.context,
                                  ![q].excluded = r.excluded]
          /\ pc' = [pc EXCEPT ![q] = IF r.found THEN "create" ELSE "done"]
          /\ last' = [op |-> "select", request |-> q, found |-> r.found, item_id |-> r.item_id]
    /\ users' = ensure_user(sess[q].user_id)
    /\ UNCHANGED <<now, recs, favorites, dismissed, user_weights, applied, nfeedback, nrepo,
                   feedback, flow_sessions, rec_sessions>>

\* rec_id = await recs_repo.create_rec(user_id, item_id, context)
RequestCreate(q) ==
    /\ pc[q] = "create"
    /\ recs' = create_rec(recs, sess[q].user_id, sess[q].item_id, sess[q].context)
    /\ sess' = [sess EXCEPT ![q].rec_id = Len(recs')]
    /\ pc' = [pc EXCEPT ![q] = "done"]
    /\ last' = [op |-> "create_rec", request |-> q, found |-> TRUE, item_id |-> sess[q].item_id]
    /\ UNCHANGED <<now, favorites, dismissed, user_weights, applied, nfeedback, nrepo, feedback,
                   users, flow_sessions, rec_sessions>>

NextInterleave ==
    \/ \E q \in Inflight : RequestSelect(q)
    \/ \E q \in Inflight : RequestCreate(q)

SpecInterleave == InitInterleave /\ [][NextInterleave]_vars

\* Both requests are for one user, succeeded and are through.
BothDone(p, q) ==
    /\ p # q /\ sess[p].user_id = sess[q].user_id
    /\ pc[p] = "done" /\ pc[q] = "done"
    /\ sess[p].found /\ sess[q].found

\* q read its exclusion set after p had written its Selection Record.
Serialized(p, q) == sess[q].seen >= sess[p].rec_id

\* Both read their exclusion sets before either wrote its Selection Record.
Interleaved(p, q) == sess[p].seen < sess[q].rec_id /\ sess[q].seen < sess[p].rec_id

\* The Selection Records of the user and the item.
RecordsOf(user_id, item_id) ==
    {i \in DOMAIN recs : recs[i].user_id = user_id /\ recs[i].item_id = item_id}

\* C29: two requests of one user that run one after the other select
\* different items (favorites apart); two that both read their exclusion set
\* before either wrote its Selection Record are not kept apart: neither has
\* the other's item in its exclusion set, and when both select the same item
\* each writes its own Selection Record for that user and item.
C29_InterleavedRequestsRepeat ==
    \A p, q \in Inflight :
        BothDone(p, q) =>
            /\ Serialized(p, q) /\ ~is_favorited(sess[p].user_id, sess[p].item_id)
                  => /\ sess[p].item_id \in sess[q].excluded
                     /\ sess[q].item_id # sess[p].item_id
            /\ Interleaved(p, q)
                  => /\ sess[p].excluded = sess[q].excluded
                     /\ sess[p].item_id = sess[q].item_id
                           => /\ recs[sess[p].rec_id].item_id = sess[p].item_id
                              /\ recs[sess[q].rec_id].item_id = sess[q].item_id
                              /\ sess[p].rec_id # sess[q].rec_id
                              /\ Cardinality(RecordsOf(sess[p].user_id, sess[p].item_id)) >= 2

\* Both requests of u1 read the exclusion set before either wrote, selected
\* the same item, and two Selection Records of u1 and that item exist.
C29_Witness ==
    /\ BothDone("q1", "q2") /\ Interleaved("q1", "q2")
    /\ sess["q1"].user_id = "u1"
    /\ sess["q1"].item_id = sess["q2"].item_id
    /\ sess["q1"].item_id \notin sess["q2"].excluded
    /\ Cardinality(RecordsOf("u1", sess["q1"].item_id)) = 2
    /\ \A i \in RecordsOf("u1", sess["q1"].item_id) : recs[i].created_at = now

(***************************************************************************)
(* A user without favorites asks again and again, for one format, inside   *)
(* the anti-repeat window (the clock stands still).                        *)
(***************************************************************************)
\* More successful calls than the catalog has items of a type.
MaxExhaust == 3

Formats == {"movie", "series"}

\* The answers for the format: every state and pace, no hint.
FormatAnswers(format) ==
    {[state |-> state, pace |-> pace, format |-> format] :
        state \in {"light", "heavy"}, pace \in {"slow", "fast"}}

\* The catalog items of the type.
ItemsOfType(item_type) == {i \in ItemIds : Catalog[i].type = item_type}

InitExhaust ==
    /\ now = 0
    /\ recs = << [rec_id |-> 1, user_id |-> "u2", item_id |-> "m2",
                  context |-> Merge(Plain, [mode |-> "normal"]), created_at |-> 0] >>
    /\ favorites = << [user_id |-> "u2", item_id |-> "m1"] >>
    /\ dismissed = { [user_id |-> "u2", item_id |-> "s1"] }
    /\ user_weights = << [user_id |-> "u2", key |-> context_key(Plain), weight |-> 1] >>
    /\ applied = SetToBag({ [user_id |-> "u2", key |-> context_key(Plain), delta |-> 1] })
    /\ nfeedback = 0
    /\ nrepo = 0
    /\ feedback = << [rec_id |-> 1, user_id |-> "u2", action |-> "another", reason |-> None] >>
    /\ users = [u \in {"u2"} |-> NoReset]
    /\ last = [op |-> "init"]
    /\ pc = EmptyDict
    /\ sess \in [format : Formats]
    /\ flow_sessions = InitFlowSessions
    /\ rec_sessions = InitRecSessions

\* get_recommendation for u1 with the format of the behaviour.
ExhaustCall(answers, mode, last_context, d) ==
    \E r \in {Recommend("u1", answers, mode, {}, last_context, {}, AnyRng(d[1], d[2]), d[3])} :
        /\ r.found => Len(recs) - 1 < MaxExhaust
        /\ recs' = IF r.found THEN create_rec(recs, "u1", r.item_id, r.context) ELSE recs
        /\ last' = [op |-> "get_recommendation", user_id |-> "u1", answers |-> answers,
                    mode |-> mode, excluded |-> r.excluded, item_type |-> r.item_type,
                    found |-> r.found, item_id |-> r.item_id,
                    rec_id |-> IF r.found THEN Len(recs) + 1 ELSE 0]
        /\ users' = ensure_user("u1")
        /\ UNCHANGED <<now, favorites, dismissed, user_weights, applied, nfeedback, nrepo,
                       feedback, pc, sess, flow_sessions, rec_sessions>>

ExhaustCalls ==
    \E answers \in FormatAnswers(sess.format), mode \in {"normal", "miss_recover"},
       d \in RequestDraws :
        ExhaustCall(answers, mode, EmptyDict, d)

NextExhaust ==
    \/ ExhaustCalls
    \/ \E item_id \in {"m1"} : AddDismissed("u1", item_id)

SpecExhaust == InitExhaust /\ [][NextExhaust]_vars

\* The user keeps asking: a call that can be made is made.
SpecExhaustFair == SpecExhaust /\ WF_vars(ExhaustCalls)

\* The Selection Records of u1, all written inside the window.
Successes == {i \in DOMAIN recs : recs[i].user_id = "u1"}

NoneReturned == last.op = "get_recommendation" /\ ~last.found

\* C30: for a fixed format and a user without favorites, the successful
\* get_recommendation calls made inside the anti-repeat window return
\* pairwise distinct items of that type, so there are at most as many as the
\* catalog has items of the type, and a user who keeps asking is eventually
\* answered None.
C30_DistinctUntilExhausted ==
    /\ [](/\ \A i, j \in Successes : i # j => recs[i].item_id # recs[j].item_id
          /\ \A i \in Successes : Catalog[recs[i].item_id].type = sess.format
          /\ Cardinality(Successes) <= Cardinality(ItemsOfType(sess.format)))
    /\ <>NoneReturned

\* Both movies of the catalog were returned to u1, and the next call
\* returned None.
C30_Witness ==
    /\ sess.format = "movie"
    /\ {recs[i].item_id : i \in Successes} = ItemsOfType("movie")
    /\ Cardinality(Successes) = 2
    /\ NoneReturned
    /\ last.excluded = ItemsOfType("movie")

====
